---- MODULE Spec2Model ----
(***************************************************************************)
(* The normalization pipeline of backend/data_transformer_uuid.py: the     *)
(* DataTransformer object (entity tables and identifier maps), its         *)
(* transform_* methods and the stage order of transform_all_data, with the *)
(* field accessors of backend/utils/helpers.py.                            *)
(*                                                                         *)
(* JSON values.  A string is a sequence of one-character strings, so that  *)
(* strip() is computed.  None is the one-element sequence <<"None">>, which *)
(* is no string, as "None" is no character.  A JSON object is a record     *)
(* that has every key the code reads; a key that is missing in the         *)
(* document holds None (safe_get returns its default for both).  An object *)
(* that is itself missing is NoDict, an array that is missing is empty.    *)
(* An integer n is <<"int", n>>.  A UUID token is UuidHexLen hex digits,    *)
(* dashes ignored (uuid.UUID: 32 hex digits, dashes ignored).              *)
(***************************************************************************)
EXTENDS Naturals, Sequences, FiniteSets, TLC

VARIABLES self, pc, all_api_data, year, season_type, populator,
          schema_creator, result, height_str, height

vars == <<self, pc, all_api_data, year, season_type, populator,
          schema_creator, result, height_str, height>>

\* The argument and the returned value of a call of
\* convert_height_to_inches.
heights == <<height_str, height>>

\* The objects of run_etl_pipeline that transform_all_data never touches.
pipeline == <<populator, schema_creator, result>>

----------------------------------------------------------------------------
(* backend/utils/helpers.py *)

None == <<"None">>

True == <<"True">>

False == <<"False">>

NoDict == [none |-> TRUE]

\* A JSON string or number that stands where the code expects an object.
NotMapping == [scalar |-> TRUE]

UuidHexLen == 3

HexDigits == {"0", "1", "2", "3", "4", "5", "6", "7", "8", "9",
              "a", "b", "c", "d", "e", "f"}

HexChar == <<"0", "1", "2", "3", "4", "5", "6", "7", "8", "9",
             "a", "b", "c", "d", "e", "f">>

Whitespace == {" "}

\* safe_get(data, key, default): the value under key, or the default when
\* data is no mapping, the key is missing or the value is None.
safe_get(data, key, default) ==
    IF data = NoDict \/ data = NotMapping THEN default
    ELSE IF data[key] = None THEN default
    ELSE data[key]

\* safe_get for a key whose value is a JSON object: NoDict when data is no
\* mapping or holds no object under key.
safe_get_dict(data, key) ==
    IF data = NoDict \/ data = NotMapping THEN NoDict ELSE data[key]

\* safe_get(data, key, default=[]) for a key whose value is a JSON array.
safe_get_list(data, key) ==
    IF data = NoDict \/ data = NotMapping THEN <<>> ELSE data[key]

RECURSIVE lstrip(_)
lstrip(s) ==
    IF s = <<>> THEN <<>>
    ELSE IF Head(s) \in Whitespace THEN lstrip(Tail(s))
    ELSE s

RECURSIVE rstrip(_)
rstrip(s) ==
    IF s = <<>> THEN <<>>
    ELSE IF s[Len(s)] \in Whitespace THEN rstrip(SubSeq(s, 1, Len(s) - 1))
    ELSE s

strip(s) == rstrip(lstrip(s))

\* normalize_string: None stays None, a string is stripped, and the empty
\* result is None.
RECURSIVE DigitsOf(_)
DigitsOf(n) ==
    IF n < 10 THEN <<HexChar[n + 1]>>
    ELSE DigitsOf(n \div 10) \o <<HexChar[(n % 10) + 1]>>

\* A JSON object {"first": .., "last": ..} found where a scalar may stand (a
\* player's name); a key that is missing holds None.
NameObj(first, last) == <<"dict", first, last>>

\* isinstance(value, dict)
IsDict(value) == Len(value) = 3 /\ value[1] = "dict"

Quoted(v) == <<"'">> \o v \o <<"'">>

\* str(value) for a dict: "{'first': 'Bo', 'last': 'Jackson'}" with the keys
\* the object has.
StrDict(value) ==
    LET first == IF value[2] = None THEN <<>>
                 ELSE <<"'", "f", "i", "r", "s", "t", "'", ":", " ">>
                      \o Quoted(value[2])
        last  == IF value[3] = None THEN <<>>
                 ELSE <<"'", "l", "a", "s", "t", "'", ":", " ">>
                      \o Quoted(value[3])
        sep   == IF value[2] # None /\ value[3] # None THEN <<",", " ">>
                 ELSE <<>>
    IN  <<"{">> \o first \o sep \o last \o <<"}">>

\* str(value) for an integer, a dict or a string.
str(value) ==
    IF Len(value) = 2 /\ value[1] = "int" THEN DigitsOf(value[2])
    ELSE IF IsDict(value) THEN StrDict(value)
    ELSE value

\* normalize_string: None stays None, a string is stripped, any other value
\* is rendered by str() and stripped; the empty result is None.
normalize_string(value) ==
    IF value = None THEN None
    ELSE IF strip(str(value)) # <<>> THEN strip(str(value))
    ELSE None

RECURSIVE replace_dash(_)
replace_dash(s) ==
    IF s = <<>> THEN <<>>
    ELSE IF Head(s) = "-" THEN replace_dash(Tail(s))
    ELSE <<Head(s)>> \o replace_dash(Tail(s))

Int(n) == <<"int", n>>

\* isinstance(value, int)
IsInt(value) == Len(value) = 2 /\ value[1] = "int"

\* isinstance(value, str)
IsStr(value) == value # None /\ ~IsInt(value) /\ ~IsDict(value)

\* safe_get(data, key, sub): the path of two keys, where data[key] may be
\* a scalar (then the default, None) or a name object.
safe_get_name(data, key, sub) ==
    IF data = NoDict \/ data = NotMapping THEN None
    ELSE IF ~IsDict(data[key]) THEN None
    ELSE IF sub = "first" THEN data[key][2]
    ELSE IF sub = "last" THEN data[key][3]
    ELSE None

\* str.split(): the maximal runs of non-whitespace characters.
RECURSIVE split(_, _, _)
split(s, word, acc) ==
    IF s = <<>> THEN (IF word = <<>> THEN acc ELSE Append(acc, word))
    ELSE IF Head(s) \in Whitespace
         THEN split(Tail(s), <<>>, IF word = <<>> THEN acc ELSE Append(acc, word))
         ELSE split(Tail(s), Append(word, Head(s)), acc)

\* ' '.join(parts)
RECURSIVE join(_)
join(parts) ==
    IF parts = <<>> THEN <<>>
    ELSE IF Len(parts) = 1 THEN parts[1]
    ELSE parts[1] \o <<" ">> \o join(Tail(parts))

\* uuid.UUID(value) does not raise.
IsUuid(value) ==
    LET hex == replace_dash(value)
    IN  /\ Len(hex) = UuidHexLen
        /\ \A i \in 1..Len(hex) : hex[i] \in HexDigits

\* normalize_uuid: the value itself when it is a string of UUID shape, else
\* None.
normalize_uuid(value) ==
    IF value = None THEN None
    ELSE IF IsStr(value) THEN (IF IsUuid(value) THEN value ELSE None)
    ELSE None

DigitValue(c) == CHOOSE d \in 0..9 : HexChar[d + 1] = c

RECURSIVE ParseDigits(_, _)
ParseDigits(s, acc) ==
    IF s = <<>> THEN acc
    ELSE ParseDigits(Tail(s), (10 * acc) + DigitValue(Head(s)))

\* int(value) does not raise for a string: decimal digits, surrounding
\* whitespace allowed (signs and underscores are in no document of the
\* model).
IsIntLiteral(value) ==
    /\ strip(value) # <<>>
    /\ \A i \in 1..Len(strip(value)) :
          \E d \in 0..9 : HexChar[d + 1] = strip(value)[i]

\* normalize_int: int(value), None when value is None or int() raises.
normalize_int(value) ==
    IF value = None THEN None
    ELSE IF IsInt(value) THEN value
    ELSE IF IsIntLiteral(value) THEN Int(ParseDigits(strip(value), 0))
    ELSE None

\* normalize_date for None and strings (no document of the model holds a
\* datetime object).
normalize_date(value) ==
    IF value = None THEN None
    ELSE IF IsStr(value) THEN (IF strip(value) # <<>> THEN strip(value) ELSE None)
    ELSE None

\* A number that is no integer (a JSON number with a fraction).
Float(n) == <<"float", n>>

\* isinstance(value, float)
IsFloat(value) == Len(value) = 2 /\ value[1] = "float"

\* The exception that int() raises for a string that is no integer literal.
ValueError == <<"ValueError">>

DecimalDigits == {HexChar[d + 1] : d \in 0..9}

\* The character SUPERSCRIPT TWO: a digit for str.isdigit(), no decimal
\* digit for int() and for \d.
SuperscriptTwo == "^2"

\* str.isdigit(): not empty, and every character is a digit.
isdigit(text) ==
    /\ text # <<>>
    /\ \A i \in 1..Len(text) : text[i] \in DecimalDigits \cup {SuperscriptTwo}

\* The length of the longest prefix of decimal digits: what \d+ matches at
\* the start of the text.
LeadingDigits(text) ==
    CHOOSE n \in 0..Len(text) :
        /\ \A i \in 1..n : text[i] \in DecimalDigits
        /\ n = Len(text) \/ text[n + 1] \notin DecimalDigits

\* re.match(r"(\d+)['\"](\d+)", text): the two groups, None without a match.
re_match(text) ==
    LET n    == LeadingDigits(text)
        rest == SubSeq(text, n + 2, Len(text))
    IN  IF /\ n >= 1 /\ n < Len(text)
           /\ text[n + 1] \in {"'", "\""}
           /\ LeadingDigits(rest) >= 1
        THEN <<SubSeq(text, 1, n), SubSeq(rest, 1, LeadingDigits(rest))>>
        ELSE None

\* convert_height_to_inches: the returned value, or ValueError when the call
\* raises it.  int(height_str) after isdigit() stands outside every try;
\* the int() calls of the dash format are inside one.
convert_height_to_inches(value) ==
    IF value = None THEN None
    ELSE IF IsInt(value) THEN value
    ELSE IF IsFloat(value) THEN None
    ELSE
    LET text   == strip(value)
        dashes == {i \in 1..Len(text) : text[i] = "-"}
        dash   == CHOOSE i \in dashes : TRUE
        feet   == SubSeq(text, 1, dash - 1)
        inches == SubSeq(text, dash + 1, Len(text))
        match  == re_match(text)
    IN  IF isdigit(text)
        THEN (IF IsIntLiteral(text) THEN Int(ParseDigits(text, 0))
              ELSE ValueError)
        ELSE IF Cardinality(dashes) = 1
        THEN (IF IsIntLiteral(feet) /\ IsIntLiteral(inches)
              THEN Int((12 * ParseDigits(strip(feet), 0))
                       + ParseDigits(strip(inches), 0))
              ELSE None)
        ELSE IF (\E i \in 1..Len(text) : text[i] \in {"'", "\""})
                /\ match # None
        THEN Int((12 * ParseDigits(match[1], 0)) + ParseDigits(match[2], 0))
        ELSE None

\* Python truth value of a scalar: None, "" and 0 are false.
Truthy(value) == value # None /\ value # <<>> /\ value # Int(0)

\* a or b
Or(a, b) == IF Truthy(a) THEN a ELSE b

\* The random bytes that a call of a transform_* method may read: uuid4
\* draws token urandom + n at its n-th call of the run.  The values are
\* further apart than the number of calls of a run, so that the tokens of a
\* run are pairwise distinct.
Urandom == {0, 128}

\* str(uuid.uuid4()): the token numbered n.  Tokens are distinct from every
\* identifier of the documents (no document of the model holds a token that
\* starts with "f").
uuid4(n) == <<"f", HexChar[((n \div 16) % 16) + 1], HexChar[(n % 16) + 1]>>

\* dict.get(key): None for a missing key.
MapGet(m, key) == IF key \in DOMAIN m THEN m[key] ELSE None

\* dict[key] = value
MapPut(m, key, value) ==
    [k \in DOMAIN m \cup {key} |-> IF k = key THEN value ELSE m[k]]

EmptyMap == << >>

\* any(row[field] == value for row in table)
AnyRow(table, field, value) ==
    \E i \in 1..Len(table) : table[i][field] = value

----------------------------------------------------------------------------
(* DataTransformer.__init__ *)

NewTransformer ==
    [conferences       |-> <<>>,
     divisions         |-> <<>>,
     venues            |-> <<>>,
     teams             |-> <<>>,
     seasons           |-> <<>>,
     players           |-> <<>>,
     player_statistics |-> <<>>,
     rankings          |-> <<>>,
     coaches           |-> <<>>,
     conference_id_map |-> EmptyMap,
     division_id_map   |-> EmptyMap,
     venue_id_map      |-> EmptyMap,
     team_id_map       |-> EmptyMap,
     season_id_map     |-> EmptyMap,
     player_id_map     |-> EmptyMap,
     \* not attributes of the object: the number of uuid.uuid4() calls made
     \* so far, the random bytes of the call in progress (0 between calls),
     \* and clean_data/season_schedule_<year>.json
     uuid_calls        |-> 0,
     urandom           |-> 0,
     schedule_file     |-> [written |-> FALSE, games |-> <<>>]]

----------------------------------------------------------------------------
(* DataTransformer._extract_venue *)

\* The transformer after _extract_venue(venue); the returned id is not
\* used by any caller.
extract_venue(s, venue) ==
    IF venue = NoDict THEN s
    ELSE LET venue_api_id == normalize_uuid(safe_get(venue, "id", None))
             venue_name   == normalize_string(safe_get(venue, "name", None))
         IN  IF venue_api_id # None /\ venue_api_id \notin DOMAIN s.venue_id_map
             THEN [s EXCEPT
                     !.venue_id_map = MapPut(@, venue_api_id, venue_api_id),
                     !.venues = Append(@, [venue_id |-> venue_api_id,
                                           name     |-> venue_name])]
             ELSE s

\* for team in teams_list: venue = safe_get(team, 'venue'); if venue: ...
RECURSIVE extract_team_venues(_, _)
extract_team_venues(s, teams_list) ==
    IF teams_list = <<>> THEN s
    ELSE extract_team_venues(
             extract_venue(s, safe_get_dict(Head(teams_list), "venue")),
             Tail(teams_list))

----------------------------------------------------------------------------
(* DataTransformer.transform_hierarchy *)

\* hierarchy_conference with the division table deduplicated by name
\* instead of by division_id.
hierarchy_conference_by_name(s, div_name, div_alias, div_uuid, conf) ==
    LET conf_name   == normalize_string(safe_get(conf, "name", None))
        conf_alias  == normalize_string(safe_get(conf, "alias", None))
        conf_api_id == normalize_uuid(safe_get(conf, "id", None))
    IN  IF conf_name = None THEN s
        ELSE
        LET conf_uuid == IF conf_api_id # None THEN conf_api_id
                         ELSE uuid4(s.urandom + s.uuid_calls)
            s1 == [s EXCEPT
                     !.uuid_calls = IF conf_api_id # None THEN @ ELSE @ + 1,
                     !.conference_id_map = MapPut(@, conf_name, conf_uuid)]
            s2 == IF AnyRow(s1.conferences, "conference_id", conf_uuid) THEN s1
                  ELSE [s1 EXCEPT !.conferences =
                          Append(@, [conference_id |-> conf_uuid,
                                     name          |-> conf_name,
                                     alias         |-> conf_alias])]
            s3 == [s2 EXCEPT !.division_id_map =
                          MapPut(@, <<conf_uuid, div_name>>, div_uuid)]
            s4 == IF AnyRow(s3.divisions, "name", div_name) THEN s3
                  ELSE [s3 EXCEPT !.divisions =
                          Append(@, [division_id   |-> div_uuid,
                                     name          |-> div_name,
                                     alias         |-> div_alias,
                                     conference_id |-> conf_uuid])]
        IN  extract_team_venues(s4, safe_get_list(conf, "teams"))

\* The body of the loop over the conferences of one division.
hierarchy_conference(s, div_name, div_alias, div_uuid, conf) ==
    LET conf_name   == normalize_string(safe_get(conf, "name", None))
        conf_alias  == normalize_string(safe_get(conf, "alias", None))
        conf_api_id == normalize_uuid(safe_get(conf, "id", None))
    IN  IF conf_name = None THEN s
        ELSE
        LET conf_uuid == IF conf_api_id # None THEN conf_api_id
                         ELSE uuid4(s.urandom + s.uuid_calls)
            s1 == [s EXCEPT
                     !.uuid_calls = IF conf_api_id # None THEN @ ELSE @ + 1,
                     !.conference_id_map = MapPut(@, conf_name, conf_uuid)]
            s2 == IF AnyRow(s1.conferences, "conference_id", conf_uuid) THEN s1
                  ELSE [s1 EXCEPT !.conferences =
                          Append(@, [conference_id |-> conf_uuid,
                                     name          |-> conf_name,
                                     alias         |-> conf_alias])]
            s3 == [s2 EXCEPT !.division_id_map =
                          MapPut(@, <<conf_uuid, div_name>>, div_uuid)]
            s4 == IF AnyRow(s3.divisions, "division_id", div_uuid) THEN s3
                  ELSE [s3 EXCEPT !.divisions =
                          Append(@, [division_id   |-> div_uuid,
                                     name          |-> div_name,
                                     alias         |-> div_alias,
                                     conference_id |-> conf_uuid])]
        IN  extract_team_venues(s4, safe_get_list(conf, "teams"))

RECURSIVE hierarchy_conferences(_, _, _, _, _)
hierarchy_conferences(s, div_name, div_alias, div_uuid, conferences_list) ==
    IF conferences_list = <<>> THEN s
    ELSE hierarchy_conferences(
             hierarchy_conference(s, div_name, div_alias, div_uuid,
                                  Head(conferences_list)),
             div_name, div_alias, div_uuid, Tail(conferences_list))

\* The body of the loop over the divisions of the hierarchy.
hierarchy_division(s, div) ==
    LET div_name   == normalize_string(safe_get(div, "name", None))
        div_alias  == normalize_string(safe_get(div, "alias", None))
        div_api_id == normalize_uuid(safe_get(div, "id", None))
    IN  IF div_name = None THEN s
        ELSE
        LET div_uuid == IF div_api_id # None THEN div_api_id
                        ELSE uuid4(s.urandom + s.uuid_calls)
            s1 == [s EXCEPT
                     !.uuid_calls = IF div_api_id # None THEN @ ELSE @ + 1]
        IN  hierarchy_conferences(s1, div_name, div_alias, div_uuid,
                                  safe_get_list(div, "conferences"))

RECURSIVE hierarchy_divisions(_, _)
hierarchy_divisions(s, divisions_list) ==
    IF divisions_list = <<>> THEN s
    ELSE hierarchy_divisions(hierarchy_division(s, Head(divisions_list)),
                             Tail(divisions_list))

transform_hierarchy(s, hierarchy_data) ==
    IF hierarchy_data = NoDict THEN s
    ELSE hierarchy_divisions(s, safe_get_list(hierarchy_data, "divisions"))

----------------------------------------------------------------------------
(* DataTransformer.transform_venues *)

transform_venues(s, teams_data) ==
    IF teams_data = NoDict THEN s
    ELSE extract_team_venues(s, safe_get_list(teams_data, "teams"))

----------------------------------------------------------------------------
(* DataTransformer.transform_teams *)

\* The (conf_id, div_name) loop over division_id_map.items(): the keys of a
\* dict are distinct, so at most one item matches and the loop returns the
\* value under the key (conference_id, division_name).
find_division(s, conference_id, division_name) ==
    MapGet(s.division_id_map, <<conference_id, division_name>>)

\* teams_team that drops a team whose conference does not resolve.
teams_team_needs_conference(s, team) ==
    LET api_team_id == normalize_uuid(safe_get(team, "id", None))
    IN  IF api_team_id = None THEN s
        ELSE
        LET conference_name ==
                normalize_string(safe_get(safe_get_dict(team, "conference"),
                                          "name", None))
            division_name ==
                normalize_string(safe_get(safe_get_dict(team, "division"),
                                          "name", None))
            conference_id ==
                IF conference_name # None
                THEN MapGet(s.conference_id_map, conference_name)
                ELSE None
            division_id ==
                IF conference_name # None /\ division_name # None
                THEN find_division(s, conference_id, division_name)
                ELSE None
            venue == safe_get_dict(team, "venue")
            venue_api_id == normalize_uuid(safe_get(venue, "id", None))
            venue_id ==
                IF venue # NoDict /\ venue_api_id # None
                THEN MapGet(s.venue_id_map, venue_api_id)
                ELSE None
        IN  IF conference_id = None THEN s
            ELSE
            [s EXCEPT
               !.team_id_map = MapPut(@, api_team_id, api_team_id),
               !.teams = Append(@, [team_id       |-> api_team_id,
                                    name          |-> normalize_string(
                                                        safe_get(team, "name", None)),
                                    conference_id |-> conference_id,
                                    division_id   |-> division_id,
                                    venue_id      |-> venue_id])]

\* The body of the loop over the teams of the teams document.
teams_team(s, team) ==
    LET api_team_id == normalize_uuid(safe_get(team, "id", None))
    IN  IF api_team_id = None THEN s
        ELSE
        LET conference_name ==
                normalize_string(safe_get(safe_get_dict(team, "conference"),
                                          "name", None))
            division_name ==
                normalize_string(safe_get(safe_get_dict(team, "division"),
                                          "name", None))
            conference_id ==
                IF conference_name # None
                THEN MapGet(s.conference_id_map, conference_name)
                ELSE None
            division_id ==
                IF conference_name # None /\ division_name # None
                THEN find_division(s, conference_id, division_name)
                ELSE None
            venue == safe_get_dict(team, "venue")
            venue_api_id == normalize_uuid(safe_get(venue, "id", None))
            venue_id ==
                IF venue # NoDict /\ venue_api_id # None
                THEN MapGet(s.venue_id_map, venue_api_id)
                ELSE None
        IN  [s EXCEPT
               !.team_id_map = MapPut(@, api_team_id, api_team_id),
               !.teams = Append(@, [team_id       |-> api_team_id,
                                    name          |-> normalize_string(
                                                        safe_get(team, "name", None)),
                                    conference_id |-> conference_id,
                                    division_id   |-> division_id,
                                    venue_id      |-> venue_id])]

RECURSIVE teams_loop(_, _)
teams_loop(s, teams_list) ==
    IF teams_list = <<>> THEN s
    ELSE teams_loop(teams_team(s, Head(teams_list)), Tail(teams_list))

transform_teams(s, teams_data) ==
    IF teams_data = NoDict THEN s
    ELSE teams_loop(s, safe_get_list(teams_data, "teams"))

----------------------------------------------------------------------------
(* DataTransformer.transform_seasons *)

\* seasons_season without the test of season_id_map.
seasons_season_no_dedup(s, season) ==
    LET season_year   == normalize_int(safe_get(season, "year", None))
        type_code     == normalize_string(safe_get(safe_get_dict(season, "type"),
                                                   "code", None))
        season_api_id == normalize_uuid(safe_get(season, "id", None))
        key           == <<season_year, type_code>>
    IN  IF Truthy(season_year) /\ type_code # None
        THEN LET season_uuid == IF season_api_id # None THEN season_api_id
                                ELSE uuid4(s.urandom + s.uuid_calls)
             IN  [s EXCEPT
                    !.uuid_calls = IF season_api_id # None THEN @ ELSE @ + 1,
                    !.seasons = Append(@, [season_id |-> season_uuid,
                                           year      |-> season_year,
                                           status    |-> normalize_string(
                                                           safe_get(season, "status", None)),
                                           type_code |-> type_code]),
                    !.season_id_map = MapPut(@, key, season_uuid)]
        ELSE s

\* The body of the loop over the seasons of the seasons document.
seasons_season(s, season) ==
    LET season_year   == normalize_int(safe_get(season, "year", None))
        type_code     == normalize_string(safe_get(safe_get_dict(season, "type"),
                                                   "code", None))
        season_api_id == normalize_uuid(safe_get(season, "id", None))
        key           == <<season_year, type_code>>
    IN  IF Truthy(season_year) /\ type_code # None
           /\ key \notin DOMAIN s.season_id_map
        THEN LET season_uuid == IF season_api_id # None THEN season_api_id
                                ELSE uuid4(s.urandom + s.uuid_calls)
             IN  [s EXCEPT
                    !.uuid_calls = IF season_api_id # None THEN @ ELSE @ + 1,
                    !.seasons = Append(@, [season_id |-> season_uuid,
                                           year      |-> season_year,
                                           status    |-> normalize_string(
                                                           safe_get(season, "status", None)),
                                           type_code |-> type_code]),
                    !.season_id_map = MapPut(@, key, season_uuid)]
        ELSE s

RECURSIVE seasons_loop(_, _)
seasons_loop(s, seasons_list) ==
    IF seasons_list = <<>> THEN s
    ELSE seasons_loop(seasons_season(s, Head(seasons_list)), Tail(seasons_list))

transform_seasons(s, seasons_data) ==
    IF seasons_data = NoDict THEN s
    ELSE seasons_loop(s, safe_get_list(seasons_data, "seasons"))

----------------------------------------------------------------------------
(* DataTransformer.transform_players *)

\* The conference of a roster document, when it is not yet in the table.
players_conference(s, conf_data) ==
    IF conf_data = NoDict THEN s
    ELSE
    LET conf_name   == normalize_string(safe_get(conf_data, "name", None))
        conf_api_id == normalize_uuid(safe_get(conf_data, "id", None))
        conf_alias  == normalize_string(safe_get(conf_data, "alias", None))
    IN  IF conf_name # None /\ conf_api_id # None
           /\ ~AnyRow(s.conferences, "conference_id", conf_api_id)
        THEN [s EXCEPT
                !.conference_id_map = MapPut(@, conf_name, conf_api_id),
                !.conferences = Append(@, [conference_id |-> conf_api_id,
                                           name          |-> conf_name,
                                           alias         |-> conf_alias])]
        ELSE s

\* The division of a roster document, when it is not yet in the table.
players_division(s, div_data, conf_data) ==
    IF div_data = NoDict \/ conf_data = NoDict THEN s
    ELSE
    LET div_name    == normalize_string(safe_get(div_data, "name", None))
        div_api_id  == normalize_uuid(safe_get(div_data, "id", None))
        div_alias   == normalize_string(safe_get(div_data, "alias", None))
        conf_api_id == normalize_uuid(safe_get(conf_data, "id", None))
    IN  IF div_name # None /\ div_api_id # None
           /\ ~AnyRow(s.divisions, "division_id", div_api_id)
        THEN [s EXCEPT
                !.division_id_map = MapPut(@, <<conf_api_id, div_name>>, div_api_id),
                !.divisions = Append(@, [division_id   |-> div_api_id,
                                         name          |-> div_name,
                                         alias         |-> div_alias,
                                         conference_id |-> conf_api_id])]
        ELSE s

\* player_names with the first token of the full name as the last name.
player_names_first_token(player) ==
    LET last0  == Or(normalize_string(safe_get(player, "last_name", None)),
                     normalize_string(safe_get_name(player, "name", "last")))
        first0 == Or(normalize_string(safe_get(player, "first_name", None)),
                     normalize_string(safe_get_name(player, "name", "first")))
        \* normalize_string returns a str or None: the isinstance(full_name,
        \* dict) branch is never taken.
        full_name  == normalize_string(safe_get(player, "name", None))
        name_parts == IF full_name = None THEN <<>>
                      ELSE split(strip(full_name), <<>>, <<>>)
        last1  == IF last0 = None /\ Len(name_parts) > 0
                  THEN name_parts[1] ELSE last0
        first1 == IF last0 = None /\ first0 = None /\ Len(name_parts) > 1
                  THEN join(SubSeq(name_parts, 1, Len(name_parts) - 1))
                  ELSE first0
    IN  <<first1, IF last1 = None THEN <<"U", "n", "k", "n", "o", "w", "n">>
                  ELSE last1>>

\* <<first_name, last_name>> of a player: the direct fields, the name
\* object, the split of the full name, the placeholder.
player_names(player) ==
    LET last0  == Or(normalize_string(safe_get(player, "last_name", None)),
                     normalize_string(safe_get_name(player, "name", "last")))
        first0 == Or(normalize_string(safe_get(player, "first_name", None)),
                     normalize_string(safe_get_name(player, "name", "first")))
        \* normalize_string returns a str or None: the isinstance(full_name,
        \* dict) branch is never taken.
        full_name  == normalize_string(safe_get(player, "name", None))
        name_parts == IF full_name = None THEN <<>>
                      ELSE split(strip(full_name), <<>>, <<>>)
        last1  == IF last0 = None /\ Len(name_parts) > 0
                  THEN name_parts[Len(name_parts)] ELSE last0
        first1 == IF last0 = None /\ first0 = None /\ Len(name_parts) > 1
                  THEN join(SubSeq(name_parts, 1, Len(name_parts) - 1))
                  ELSE first0
    IN  <<first1, IF last1 = None THEN <<"U", "n", "k", "n", "o", "w", "n">>
                  ELSE last1>>

\* players_player without the test of player_id_map.
players_player_no_dedup(s, team_db_id, player) ==
    LET api_player_id == normalize_uuid(safe_get(player, "id", None))
    IN  IF api_player_id = None THEN s
        ELSE [s EXCEPT
                !.player_id_map = MapPut(@, api_player_id, api_player_id),
                !.players = Append(@, [player_id  |-> api_player_id,
                                       first_name |-> player_names(player)[1],
                                       last_name  |-> player_names(player)[2],
                                       team_id    |-> team_db_id])]

\* players_player that skips a player for whom no last name was found.
players_player_skip_unnamed(s, team_db_id, player) ==
    LET api_player_id == normalize_uuid(safe_get(player, "id", None))
    IN  IF api_player_id = None THEN s
        ELSE IF player_names(player)[2] = <<"U", "n", "k", "n", "o", "w", "n">>
        THEN s
        ELSE IF api_player_id \in DOMAIN s.player_id_map THEN s
        ELSE [s EXCEPT
                !.player_id_map = MapPut(@, api_player_id, api_player_id),
                !.players = Append(@, [player_id  |-> api_player_id,
                                       first_name |-> player_names(player)[1],
                                       last_name  |-> player_names(player)[2],
                                       team_id    |-> team_db_id])]

\* The body of the loop over the players of one roster.
players_player(s, team_db_id, player) ==
    LET api_player_id == normalize_uuid(safe_get(player, "id", None))
    IN  IF api_player_id = None THEN s
        ELSE IF api_player_id \in DOMAIN s.player_id_map THEN s
        ELSE [s EXCEPT
                !.player_id_map = MapPut(@, api_player_id, api_player_id),
                !.players = Append(@, [player_id  |-> api_player_id,
                                       first_name |-> player_names(player)[1],
                                       last_name  |-> player_names(player)[2],
                                       team_id    |-> team_db_id])]

RECURSIVE players_loop(_, _, _)
players_loop(s, team_db_id, players_list) ==
    IF players_list = <<>> THEN s
    ELSE players_loop(players_player(s, team_db_id, Head(players_list)),
                      team_db_id, Tail(players_list))

\* players_roster with the roster's key taken as the team id, without the
\* lookup in team_id_map.
players_roster_no_lookup(s, team_api_id, roster_data) ==
    LET s1 == extract_venue(s, safe_get_dict(roster_data, "venue"))
        conf_data == safe_get_dict(roster_data, "conference")
        s2 == players_conference(s1, conf_data)
        s3 == players_division(s2, safe_get_dict(roster_data, "division"),
                               conf_data)
    IN  players_loop(s3, team_api_id, safe_get_list(roster_data, "players"))

\* The body of the loop over rosters_data.items().
players_roster(s, team_api_id, roster_data) ==
    LET s1 == extract_venue(s, safe_get_dict(roster_data, "venue"))
        conf_data == safe_get_dict(roster_data, "conference")
        s2 == players_conference(s1, conf_data)
        s3 == players_division(s2, safe_get_dict(roster_data, "division"),
                               conf_data)
        team_db_id == MapGet(s3.team_id_map, team_api_id)
    IN  IF team_db_id = None THEN s3
        ELSE players_loop(s3, team_db_id, safe_get_list(roster_data, "players"))

\* rosters_data is a dict: a sequence of items [key, value] with distinct
\* keys, in insertion order.
RECURSIVE players_rosters(_, _)
players_rosters(s, items) ==
    IF items = <<>> THEN s
    ELSE players_rosters(players_roster(s, Head(items).key, Head(items).value),
                         Tail(items))

transform_players(s, rosters_data) == players_rosters(s, rosters_data)

----------------------------------------------------------------------------
(* DataTransformer.transform_coaches *)

\* The body of the loop over the coaches of one roster.
coaches_coach(s, team_db_id, coach) ==
    LET coach_api_id == normalize_uuid(safe_get(coach, "id", None))
        full_name0   == normalize_string(safe_get(coach, "full_name", None))
        first        == normalize_string(safe_get(coach, "first_name", None))
        last         == normalize_string(safe_get(coach, "last_name", None))
        full_name    == IF full_name0 # None THEN full_name0
                        ELSE IF first # None /\ last # None
                             THEN first \o <<" ">> \o last
                        ELSE IF last # None THEN last
                        ELSE None
    IN  IF full_name = None THEN s
        ELSE [s EXCEPT
                !.uuid_calls = IF coach_api_id # None THEN @ ELSE @ + 1,
                !.coaches = Append(@,
                    [coach_id  |-> IF coach_api_id # None THEN coach_api_id
                                   ELSE uuid4(s.urandom + s.uuid_calls),
                     full_name |-> full_name,
                     position  |-> normalize_string(safe_get(coach, "position", None)),
                     team_id   |-> team_db_id])]

RECURSIVE coaches_loop(_, _, _)
coaches_loop(s, team_db_id, coaches_list) ==
    IF coaches_list = <<>> THEN s
    ELSE coaches_loop(coaches_coach(s, team_db_id, Head(coaches_list)),
                      team_db_id, Tail(coaches_list))

\* The body of the loop over rosters_data.items().
coaches_roster(s, team_api_id, roster_data) ==
    LET team_db_id == MapGet(s.team_id_map, team_api_id)
    IN  IF team_db_id = None THEN s
        ELSE coaches_loop(s, team_db_id, safe_get_list(roster_data, "coaches"))

RECURSIVE coaches_rosters(_, _)
coaches_rosters(s, items) ==
    IF items = <<>> THEN s
    ELSE coaches_rosters(coaches_roster(s, Head(items).key, Head(items).value),
                         Tail(items))

transform_coaches(s, rosters_data) == coaches_rosters(s, rosters_data)

----------------------------------------------------------------------------
(* DataTransformer.transform_player_statistics *)

\* stats_player without the lookup in player_id_map.
stats_player_no_lookup(s, base, team_db_id, season_db_id, player_stat) ==
    LET api_player_id == normalize_uuid(safe_get(player_stat, "id", None))
        stats         == safe_get_dict(player_stat, "statistics")
    IN  IF api_player_id = None THEN s
        ELSE [s EXCEPT !.player_statistics = Append(@,
                [stat_id      |-> Int((Len(@) - base) + 1),
                 player_id    |-> api_player_id,
                 team_id      |-> team_db_id,
                 season_id    |-> season_db_id,
                 games_played |-> normalize_int(
                                    safe_get(stats, "games_played", None))])]

\* The body of the loop over the players of one team's statistics; stat_id
\* is 1 + the number of records this call has appended, base the length of
\* the table when the call began.
stats_player(s, base, team_db_id, season_db_id, player_stat) ==
    LET api_player_id == normalize_uuid(safe_get(player_stat, "id", None))
        player_db_id  == IF api_player_id = None THEN None
                         ELSE MapGet(s.player_id_map, api_player_id)
        stats         == safe_get_dict(player_stat, "statistics")
    IN  IF api_player_id = None \/ player_db_id = None THEN s
        ELSE [s EXCEPT !.player_statistics = Append(@,
                [stat_id      |-> Int((Len(@) - base) + 1),
                 player_id    |-> player_db_id,
                 team_id      |-> team_db_id,
                 season_id    |-> season_db_id,
                 games_played |-> normalize_int(
                                    safe_get(stats, "games_played", None))])]

RECURSIVE stats_players(_, _, _, _, _)
stats_players(s, base, team_db_id, season_db_id, players_stats) ==
    IF players_stats = <<>> THEN s
    ELSE stats_players(
             stats_player(s, base, team_db_id, season_db_id, Head(players_stats)),
             base, team_db_id, season_db_id, Tail(players_stats))

\* The body of the loop over season_stats_data.items().
stats_team(s, base, season_db_id, team_api_id, stats_data) ==
    LET team_db_id == MapGet(s.team_id_map, team_api_id)
    IN  IF team_db_id = None THEN s
        ELSE stats_players(s, base, team_db_id, season_db_id,
                           safe_get_list(stats_data, "players"))

RECURSIVE stats_teams(_, _, _, _)
stats_teams(s, base, season_db_id, items) ==
    IF items = <<>> THEN s
    ELSE stats_teams(
             stats_team(s, base, season_db_id, Head(items).key, Head(items).value),
             base, season_db_id, Tail(items))

\* transform_player_statistics without the return on a failed season
\* lookup.
transform_player_statistics_any_season(s, season_stats_data, yr, stype) ==
    LET season_db_id == MapGet(s.season_id_map, <<yr, stype>>)
    IN  IF season_stats_data = <<>> THEN s
        ELSE stats_teams(s, Len(s.player_statistics), season_db_id,
                         season_stats_data)

transform_player_statistics(s, season_stats_data, yr, stype) ==
    LET season_db_id == MapGet(s.season_id_map, <<yr, stype>>)
    IN  IF season_stats_data = <<>> THEN s
        ELSE IF season_db_id = None THEN s
        ELSE stats_teams(s, Len(s.player_statistics), season_db_id,
                         season_stats_data)

----------------------------------------------------------------------------
(* DataTransformer.transform_rankings *)

REG == <<"R", "E", "G">>

\* rankings_item that skips the item when the season lookup failed.
rankings_item_needs_season(s, rankings_data, poll_id, poll_name, season_db_id, week, rank_item) ==
    LET team_api_id == normalize_uuid(safe_get(rank_item, "id", None))
        team_db_id  == IF team_api_id = None THEN None
                       ELSE MapGet(s.team_id_map, team_api_id)
    IN  IF team_api_id = None \/ team_db_id = None \/ season_db_id = None THEN s
        ELSE [s EXCEPT !.rankings = Append(@,
                [ranking_id |-> Int(Len(@) + 1),
                 poll_id    |-> poll_id,
                 poll_name  |-> poll_name,
                 season_id  |-> season_db_id,
                 week       |-> IF Truthy(week) THEN week ELSE None,
                 team_id    |-> team_db_id,
                 rank       |-> normalize_int(safe_get(rank_item, "rank", None))])]

\* The body of the loop over the ranking items; ranking_id counts on from
\* len(self.rankings) + 1 of the time the call began, one per record.
rankings_item(s, rankings_data, poll_id, poll_name, season_db_id, week, rank_item) ==
    LET team_api_id == normalize_uuid(safe_get(rank_item, "id", None))
        team_db_id  == IF team_api_id = None THEN None
                       ELSE MapGet(s.team_id_map, team_api_id)
    IN  IF team_api_id = None \/ team_db_id = None THEN s
        ELSE [s EXCEPT !.rankings = Append(@,
                [ranking_id |-> Int(Len(@) + 1),
                 poll_id    |-> poll_id,
                 poll_name  |-> poll_name,
                 season_id  |-> season_db_id,
                 week       |-> IF Truthy(week) THEN week ELSE None,
                 team_id    |-> team_db_id,
                 rank       |-> normalize_int(safe_get(rank_item, "rank", None))])]

RECURSIVE rankings_loop(_, _, _, _, _, _, _)
rankings_loop(s, rankings_data, poll_id, poll_name, season_db_id, week, rankings_list) ==
    IF rankings_list = <<>> THEN s
    ELSE rankings_loop(
             rankings_item(s, rankings_data, poll_id, poll_name, season_db_id,
                           week, Head(rankings_list)),
             rankings_data, poll_id, poll_name, season_db_id, week,
             Tail(rankings_list))

transform_rankings(s, rankings_data, yr, week_arg) ==
    IF rankings_data = NoDict THEN s
    ELSE
    LET poll        == safe_get_dict(rankings_data, "poll")
        poll_api_id == normalize_uuid(safe_get(poll, "id", None))
        poll_id     == IF poll_api_id # None THEN poll_api_id
                       ELSE uuid4(s.urandom + s.uuid_calls)
        s1          == [s EXCEPT !.uuid_calls =
                           IF poll_api_id # None THEN @ ELSE @ + 1]
        poll_name   == normalize_string(safe_get(poll, "name", None))
        week        == IF week_arg = None
                       THEN normalize_int(safe_get(rankings_data, "week", None))
                       ELSE week_arg
        season_db_id == MapGet(s.season_id_map, <<yr, REG>>)
    IN  rankings_loop(s1, rankings_data, poll_id, poll_name, season_db_id, week,
                      safe_get_list(rankings_data, "rankings"))

----------------------------------------------------------------------------
(* DataTransformer.transform_schedule *)

\* a.get(k1) or a.get(k2) or {} for keys that hold JSON objects (or a
\* string where the object should be, which is true as a condition)
GetDictOr(item, k1, k2) == IF item[k1] # NoDict THEN item[k1] ELSE item[k2]

\* isinstance(value, dict) for the value of such a key
IsMapping(value) == value # NotMapping

\* The game of one schedule item.
schedule_game(game_id, item) ==
    LET home  == GetDictOr(item, "home", "home_team")
        away  == GetDictOr(item, "away", "away_team")
        venue == item.venue
        event_time == Or(Or(item.scheduled, item.date), item.start_time)
    IN  [game_id          |-> Int(game_id),
         home_team_api_id |-> IF home = NoDict \/ ~IsMapping(home) THEN None
                              ELSE normalize_uuid(home.id),
         away_team_api_id |-> IF away = NoDict \/ ~IsMapping(away) THEN None
                              ELSE normalize_uuid(away.id),
         scheduled        |-> event_time,
         venue_name       |-> IF venue = NoDict \/ ~IsMapping(venue) THEN None
                              ELSE normalize_string(venue.name)]

\* schedule_data.get('schedule') or schedule_data.get('games') or []
schedule_list(schedule_data) ==
    IF schedule_data.schedule # <<>> THEN schedule_data.schedule
    ELSE schedule_data.games

\* item.get('home') raises AttributeError for an item that is no mapping:
\* transform_schedule raises at the first such item, before it has written
\* anything.
schedule_raises(schedule_data) ==
    /\ schedule_data # NoDict
    /\ \E i \in 1..Len(schedule_list(schedule_data)) :
          ~IsMapping(schedule_list(schedule_data)[i])

transform_schedule(s, schedule_data) ==
    IF schedule_data = NoDict \/ schedule_raises(schedule_data) THEN s
    ELSE [s EXCEPT !.schedule_file =
            [written |-> TRUE,
             games   |-> [i \in 1..Len(schedule_list(schedule_data)) |->
                            schedule_game(i, schedule_list(schedule_data)[i])]]]

----------------------------------------------------------------------------
(* DataTransformer.transform_all_data: one action for each stage, in the  *)
(* order of the code.  A stage whose document is missing or empty is      *)
(* skipped.                                                               *)

Stages == <<"hierarchy", "venues", "teams", "seasons", "players", "coaches",
            "player_statistics", "rankings_current", "rankings_week1",
            "season_schedule", "compile", "returned">>

\* An exception leaves transform_all_data from the stage, with the
\* transformer as the stage has left it.
Raise(stage, s) ==
    /\ pc = stage
    /\ self' = s
    /\ pc' = "raised"
    /\ UNCHANGED <<all_api_data, year, season_type, pipeline, heights>>

\* StageAfter with the seasons stage moved before the venues stage.
StageAfter_seasons_early(stage) ==
    LET order == <<"hierarchy", "seasons", "venues", "teams", "players",
                   "coaches", "player_statistics", "rankings_current",
                   "rankings_week1", "season_schedule", "compile", "returned">>
    IN  order[(CHOOSE i \in 1..Len(order) : order[i] = stage) + 1]

StageAfter(stage) ==
    Stages[(CHOOSE i \in 1..Len(Stages) : Stages[i] = stage) + 1]

Advance(stage, s) ==
    /\ pc = stage
    /\ self' = s
    /\ pc' = StageAfter(stage)
    /\ UNCHANGED <<all_api_data, year, season_type, pipeline, heights>>

\* The transformer during a call that reads the random bytes r, and after
\* the call.
Reading(s, r) == [s EXCEPT !.urandom = r]

Done(s) == [s EXCEPT !.urandom = 0]

\* The stages of transform_all_data on the documents d: the transformer
\* after the stage.
HierarchyStage(s, d, r) ==
    IF d.hierarchy # NoDict
    THEN Done(transform_hierarchy(Reading(s, r), d.hierarchy))
    ELSE s

VenuesStage(s, d) ==
    IF d.teams # NoDict THEN transform_venues(s, d.teams) ELSE s

TeamsStage(s, d) ==
    IF d.teams # NoDict THEN transform_teams(s, d.teams) ELSE s

\* SeasonsStage that records a placeholder season when the seasons document
\* is absent.
SeasonsStage_placeholder(s, d, r) ==
    IF d.seasons # NoDict
    THEN Done(transform_seasons(Reading(s, r), d.seasons))
    ELSE [s EXCEPT !.seasons = Append(@, [season_id |-> uuid4(r),
                                          year      |-> None,
                                          status    |-> None,
                                          type_code |-> None])]

SeasonsStage(s, d, r) ==
    IF d.seasons # NoDict
    THEN Done(transform_seasons(Reading(s, r), d.seasons))
    ELSE s

PlayersStage(s, d) ==
    IF d.rosters # <<>> THEN transform_players(s, d.rosters) ELSE s

CoachesStage(s, d, r) ==
    IF d.rosters # <<>>
    THEN Done(transform_coaches(Reading(s, r), d.rosters))
    ELSE s

PlayerStatisticsStage(s, d, yr, stype) ==
    IF d.season_stats # <<>>
    THEN transform_player_statistics(s, d.season_stats, yr, stype)
    ELSE s

RankingsCurrentStage(s, d, yr, r) ==
    IF d.rankings_current # NoDict
    THEN Done(transform_rankings(Reading(s, r), d.rankings_current, yr, None))
    ELSE s

RankingsWeek1Stage(s, d, yr, r) ==
    IF d.rankings_week1 # NoDict
    THEN Done(transform_rankings(Reading(s, r), d.rankings_week1, yr, Int(1)))
    ELSE s

ScheduleStage(s, d) ==
    IF d.season_schedule # NoDict
    THEN transform_schedule(s, d.season_schedule)
    ELSE s

StageHierarchy ==
    \E r \in Urandom :
        Advance("hierarchy", HierarchyStage(self, all_api_data, r))

StageVenues == Advance("venues", VenuesStage(self, all_api_data))

StageTeams == Advance("teams", TeamsStage(self, all_api_data))

StageSeasons ==
    \E r \in Urandom :
        Advance("seasons", SeasonsStage(self, all_api_data, r))

StagePlayers == Advance("players", PlayersStage(self, all_api_data))

StageCoaches ==
    \E r \in Urandom :
        Advance("coaches", CoachesStage(self, all_api_data, r))

StagePlayerStatistics ==
    Advance("player_statistics",
            PlayerStatisticsStage(self, all_api_data, year, season_type))

StageRankingsCurrent ==
    \E r \in Urandom :
        Advance("rankings_current",
                RankingsCurrentStage(self, all_api_data, year, r))

StageRankingsWeek1 ==
    \E r \in Urandom :
        Advance("rankings_week1",
                RankingsWeek1Stage(self, all_api_data, year, r))

StageSchedule ==
    IF schedule_raises(all_api_data.season_schedule)
    THEN Raise("season_schedule", self)
    ELSE Advance("season_schedule", ScheduleStage(self, all_api_data))

\* The transformer after a whole call transform_all_data(d, yr, stype) that
\* starts from s and reads the random bytes r at every stage.
transform_all_data(s, d, yr, stype, r) ==
    LET s1  == HierarchyStage(s, d, r)
        s2  == VenuesStage(s1, d)
        s3  == TeamsStage(s2, d)
        s4  == SeasonsStage(s3, d, r)
        s5  == PlayersStage(s4, d)
        s6  == CoachesStage(s5, d, r)
        s7  == PlayerStatisticsStage(s6, d, yr, stype)
        s8  == RankingsCurrentStage(s7, d, yr, r)
        s9  == RankingsWeek1Stage(s8, d, yr, r)
    IN  ScheduleStage(s9, d)

\* The tables of the returned dict.
transformed_data(s) ==
    [conferences       |-> s.conferences,
     divisions         |-> s.divisions,
     venues            |-> s.venues,
     teams             |-> s.teams,
     seasons           |-> s.seasons,
     players           |-> s.players,
     player_statistics |-> s.player_statistics,
     rankings          |-> s.rankings,
     coaches           |-> s.coaches]

Return == Advance("compile", self)

----------------------------------------------------------------------------
(* backend/db_populator.py: DatabasePopulator.  The populator holds the    *)
(* connection, through which it sees the tables of the database, and the   *)
(* INSERT statements it has generated.                                     *)

NoConn == [closed |-> TRUE]

NewPopulator == [conn |-> NoConn, insert_statements |-> <<>>]

\* insertion_order with the teams first.
insertion_order_teams_first ==
    <<"teams", "conferences", "divisions", "venues", "seasons", "players",
      "coaches", "player_statistics", "rankings">>

insertion_order ==
    <<"conferences", "divisions", "venues", "seasons", "teams", "players",
      "coaches", "player_statistics", "rankings">>

\* The primary key of each table of the database schema.
PrimaryKey ==
    [conferences       |-> "conference_id",
     divisions         |-> "division_id",
     venues            |-> "venue_id",
     seasons           |-> "season_id",
     teams             |-> "team_id",
     players           |-> "player_id",
     coaches           |-> "coach_id",
     player_statistics |-> "stat_id",
     rankings          |-> "ranking_id"]

\* A database without rows.
EmptyStorage == [table \in DOMAIN PrimaryKey |-> <<>>]

\* The characters of the table names and of the column names that end in
\* _id; no other column of a record is named id or ends in _id.
TableSpelling ==
    [conferences |-> <<"c", "o", "n", "f", "e", "r", "e", "n", "c", "e", "s">>,
     divisions |-> <<"d", "i", "v", "i", "s", "i", "o", "n", "s">>,
     venues |-> <<"v", "e", "n", "u", "e", "s">>,
     seasons |-> <<"s", "e", "a", "s", "o", "n", "s">>,
     teams |-> <<"t", "e", "a", "m", "s">>,
     players |-> <<"p", "l", "a", "y", "e", "r", "s">>,
     coaches |-> <<"c", "o", "a", "c", "h", "e", "s">>,
     player_statistics |-> <<"p", "l", "a", "y", "e", "r", "_", "s", "t", "a", "t", "i", "s", "t", "i", "c", "s">>,
     rankings |-> <<"r", "a", "n", "k", "i", "n", "g", "s">>]

ColumnSpelling ==
    [conference_id |-> <<"c", "o", "n", "f", "e", "r", "e", "n", "c", "e", "_", "i", "d">>,
     division_id |-> <<"d", "i", "v", "i", "s", "i", "o", "n", "_", "i", "d">>,
     venue_id |-> <<"v", "e", "n", "u", "e", "_", "i", "d">>,
     season_id |-> <<"s", "e", "a", "s", "o", "n", "_", "i", "d">>,
     team_id |-> <<"t", "e", "a", "m", "_", "i", "d">>,
     player_id |-> <<"p", "l", "a", "y", "e", "r", "_", "i", "d">>,
     coach_id |-> <<"c", "o", "a", "c", "h", "_", "i", "d">>,
     stat_id |-> <<"s", "t", "a", "t", "_", "i", "d">>,
     ranking_id |-> <<"r", "a", "n", "k", "i", "n", "g", "_", "i", "d">>,
     poll_id |-> <<"p", "o", "l", "l", "_", "i", "d">>]

NoColumn == ""

\* The primary key column that _insert_table works out from the table
\* name: f"{table_name[:-1]}_id", "id" or f"{table_name}_id", whichever is
\* first among the columns of the first record.
pk_column(table_name, columns) ==
    LET name        == TableSpelling[table_name]
        suffix      == <<"_", "i", "d">>
        singular    == SubSeq(name, 1, Len(name) - 1) \o suffix
        plural      == name \o suffix
        Spelled(sp) == {c \in columns \cap DOMAIN ColumnSpelling :
                           ColumnSpelling[c] = sp}
    IN  IF Spelled(singular) # {} THEN CHOOSE c \in Spelled(singular) : TRUE
        ELSE IF "id" \in columns THEN "id"
        ELSE IF Spelled(plural) # {} THEN CHOOSE c \in Spelled(plural) : TRUE
        ELSE NoColumn

\* One INSERT of the batch: ON CONFLICT (pk) DO UPDATE SET every other
\* column when a primary key column was found, ON CONFLICT DO NOTHING
\* (a conflict on the primary key of the schema) when none was.
execute_insert(rows, table_name, pk, record) ==
    LET key      == IF pk # NoColumn THEN pk ELSE PrimaryKey[table_name]
        conflict == {i \in 1..Len(rows) : rows[i][key] = record[key]}
    IN  IF conflict = {} THEN Append(rows, record)
        ELSE IF pk # NoColumn
             THEN [i \in 1..Len(rows) |->
                      IF i \in conflict THEN record ELSE rows[i]]
        ELSE rows

RECURSIVE execute_batch(_, _, _, _)
execute_batch(rows, table_name, pk, records) ==
    IF records = <<>> THEN rows
    ELSE execute_batch(execute_insert(rows, table_name, pk, Head(records)),
                       table_name, pk, Tail(records))

\* DatabasePopulator._insert_table(table_name, records), where failing
\* holds the tables whose INSERT raises psycopg2.Error: the batch is rolled
\* back and no statement of the table is recorded.
insert_table(p, table_name, records, failing) ==
    IF records = <<>> THEN p
    ELSE IF table_name \in failing THEN p
    ELSE LET pk == pk_column(table_name, DOMAIN records[1])
         IN  [p EXCEPT
                !.conn[table_name] = execute_batch(@, table_name, pk, records),
                !.insert_statements = @ \o
                    [i \in 1..Len(records) |->
                        [table |-> table_name, record |-> records[i]]]]

RECURSIVE insert_tables(_, _, _, _)
insert_tables(p, tables, data, failing) ==
    IF tables = <<>> THEN p
    ELSE insert_tables(
             IF Head(tables) \in DOMAIN data
             THEN insert_table(p, Head(tables), data[Head(tables)], failing)
             ELSE p,
             Tail(tables), data, failing)

\* DatabasePopulator.populate_all_tables(transformed_data), once connected
populate_all_tables(p, data, failing) ==
    insert_tables(p, insertion_order, data, failing)

\* backend/schema_creator.py: a connection of the schema creator
OpenConn == [closed |-> FALSE]

\* SchemaCreator.__init__
NewSchemaCreator == [conn |-> NoConn]

----------------------------------------------------------------------------
(* The documents of the model.                                             *)

MaxHierarchyEntries == 2
MaxTeams == 2
MaxRosterEntries == 2
MaxStatEntries == 2
MaxRankings == 2
MaxRosters == 2
MaxGames == 2
MaxCalls == 3
MaxHeightLen == 4

DefaultYear == 2025

\* Identifier tokens of UUID shape, an identifier of another shape, and a
\* second spelling of the token of team T1.
C1id == <<"c", "0", "1">>
C2id == <<"c", "0", "2">>
D1id == <<"d", "0", "1">>
D2id == <<"d", "0", "2">>
V1id == <<"e", "0", "1">>
V2id == <<"e", "0", "2">>
T1id == <<"a", "0", "1">>
T2id == <<"a", "0", "2">>
T3id == <<"a", "0", "3">>
T1dashed == <<"a", "-", "0", "1">>
P1id == <<"b", "0", "1">>
P2id == <<"b", "0", "2">>
K1id == <<"9", "0", "1">>
S1id == <<"5", "0", "1">>
Poll1id == <<"7", "0", "1">>
BadId == <<"x", "y", "z">>

Max(a, b) == IF a > b THEN a ELSE b

\* The sequences over S of length at most n.
ListsUpTo(S, n) == UNION {[1..k -> S] : k \in 0..n}

\* The sequences of groups <<head, list>> with heads in H and lists over S,
\* of at most n entries in all (a group counts for its list, an empty one
\* for 1).
RECURSIVE Groups(_, _, _)
Groups(H, S, n) ==
    {<<>>} \cup
    (IF n = 0 THEN {}
     ELSE UNION {{<<<<h, l>>>> \o rest :
                     h \in H, l \in [1..k -> S],
                     rest \in Groups(H, S, n - Max(k, 1))} : k \in 0..n})

DistinctHeads(g) == \A i, j \in 1..Len(g) : g[i][1] = g[j][1] => i = j

Venue(id, name) == [id |-> id, name |-> name]

Named(name) == [name |-> name]

HTeam(venue) == [venue |-> venue]

Conf(id, name, teams) ==
    [id |-> id, name |-> name, alias |-> None, teams |-> teams]

Div(head, confs) ==
    [id |-> head[1], name |-> head[2], alias |-> None, conferences |-> confs]

Team(id, name, conf, div, venue) ==
    [id |-> id, name |-> name, conference |-> conf, division |-> div,
     venue |-> venue]

Season(id, yr, code) ==
    [id |-> id, year |-> yr, type |-> [code |-> code], status |-> None]

Player(id, last_name) ==
    [id |-> id, first_name |-> None, last_name |-> last_name, name |-> None]

Coach(id, full_name) ==
    [id |-> id, full_name |-> full_name, first_name |-> None,
     last_name |-> None, position |-> None]

Roster(players, coaches, conf, div, venue) ==
    [players |-> players, coaches |-> coaches, conference |-> conf,
     division |-> div, venue |-> venue]

Item(key, value) == [key |-> key, value |-> value]

PlayerStat(id, games) ==
    [id |-> id, statistics |-> [games_played |-> games]]

RankItem(id, rank) == [id |-> id, rank |-> rank]

Rankings(poll, week, items) ==
    [poll |-> poll, week |-> week, rankings |-> items]

Game(home, home_team, away, away_team, venue, scheduled, date, start_time) ==
    [home |-> home, home_team |-> home_team, away |-> away,
     away_team |-> away_team, venue |-> venue, scheduled |-> scheduled,
     date |-> date, start_time |-> start_time]

\* A well-formed input: one division with one conference, two teams, one
\* season, the roster and the statistics of team T1, two polls, one game.
BaseHierarchy ==
    [divisions |-> <<Div(<<D1id, <<"E">>>>, <<Conf(C1id, <<"A">>, <<>>)>>)>>]

BaseTeams ==
    [teams |-> <<Team(T1id, <<"x">>, Named(<<"A">>), Named(<<"E">>),
                      Venue(V1id, <<"v">>)),
                 Team(T2id, <<"y">>, Named(<<"A">>), NoDict, NoDict)>>]

BaseSeasons == [seasons |-> <<Season(S1id, Int(DefaultYear), REG)>>]

BaseRosters ==
    <<Item(T1id, Roster(<<Player(P1id, <<"p">>)>>, <<Coach(K1id, <<"k">>)>>,
                        NoDict, NoDict, NoDict))>>

BaseStats == <<Item(T1id, [players |-> <<PlayerStat(P1id, Int(3))>>])>>

BaseRankings ==
    Rankings([id |-> Poll1id, name |-> <<"A", "P">>], Int(2),
             <<RankItem(T1id, Int(1))>>)

BaseSchedule ==
    [schedule |-> <<Game([id |-> T1id], NoDict, NoDict, [id |-> T3id],
                         Named(<<"v">>), None, <<"t">>, None)>>,
     games    |-> <<>>]

BaseInput ==
    [hierarchy        |-> BaseHierarchy,
     teams            |-> BaseTeams,
     seasons          |-> BaseSeasons,
     rosters          |-> BaseRosters,
     season_stats     |-> BaseStats,
     rankings_current |-> BaseRankings,
     rankings_week1   |-> BaseRankings,
     season_schedule  |-> BaseSchedule]

----------------------------------------------------------------------------
(* The inputs of the model: families that vary one or two documents of the *)
(* well-formed input.                                                      *)

PST == <<"P", "S", "T">>

AltSeasons ==
    [seasons |-> <<Season(None, <<"2", "0", "2", "5">>, PST),
                   Season(S1id, Int(DefaultYear), PST),
                   Season(S1id, Int(0), REG)>>]

SeasonDocs == {BaseSeasons, NoDict, AltSeasons}

\* Divisions of one name with ids of their own or none, under conferences
\* with and without an id.
DivHeads == {<<D1id, <<"E">>>>, <<D2id, <<"E">>>>, <<None, <<"E">>>>}

ConfEntries ==
    {Conf(C1id, <<"A">>, <<>>), Conf(C2id, <<"B">>, <<>>),
     Conf(None, <<"A">>, <<>>)}

\* Divisions of several names (one of them blank) under conferences whose
\* name needs stripping, is missing, or that list teams with a venue.
OtherDivHeads == {<<D1id, <<"E">>>>, <<D2id, <<"W">>>>, <<D1id, <<" ">>>>}

OtherConfEntries ==
    {Conf(C1id, <<"A">>, <<>>), Conf(C2id, <<" ", "A">>, <<>>),
     Conf(C1id, None, <<>>),
     Conf(C1id, <<"A">>, <<HTeam(Venue(V1id, <<"v">>))>>)}

HierarchyOf(g) == [divisions |-> [i \in 1..Len(g) |-> Div(g[i][1], g[i][2])]]

HierarchyDocs ==
    {HierarchyOf(g) :
        g \in Groups(DivHeads, ConfEntries, MaxHierarchyEntries)
              \cup Groups(OtherDivHeads, OtherConfEntries, MaxHierarchyEntries)}

\* One division listing two conferences.
TwoConferenceHierarchy ==
    [divisions |-> <<Div(<<D1id, <<"E">>>>,
                         <<Conf(C1id, <<"A">>, <<>>), Conf(C2id, <<"B">>, <<>>)>>)>>]

HierarchyTeams ==
    {[teams |-> <<t>>] :
        t \in {Team(T1id, <<"x">>, Named(<<"A">>), Named(<<"E">>),
                    Venue(V1id, <<"v">>)),
               Team(T1id, <<"x">>, Named(<<"B">>), Named(<<"E", " ">>), NoDict),
               Team(T1id, <<"x">>, Named(<<"A">>), NoDict, Venue(BadId, <<"v">>)),
               Team(T1id, <<"x">>, NoDict, Named(<<"E">>), Venue(V2id, None))}}

HierarchyInputs ==
    {[BaseInput EXCEPT !.hierarchy = h] : h \in HierarchyDocs}
    \cup {[BaseInput EXCEPT !.hierarchy = h, !.teams = t] :
             h \in {BaseHierarchy, TwoConferenceHierarchy, NoDict},
             t \in HierarchyTeams}

TeamEntries ==
    {Team(id, <<"x">>, cdv[1], cdv[2], cdv[3]) :
        id \in {T1id, T2id, T1dashed, BadId},
        cdv \in {<<Named(<<"A">>), Named(<<"E">>), Venue(V1id, <<"v">>)>>,
                 <<NoDict, NoDict, Venue(V2id, <<"w">>)>>}}
    \cup {Team(T1id, <<"y">>, NoDict, NoDict, NoDict)}

TeamsInputs ==
    {[BaseInput EXCEPT !.teams = [teams |-> l]] :
        l \in ListsUpTo(TeamEntries, MaxTeams)}

RosterKeys == {T1id, T2id, T3id}

PlayerEntries ==
    {Player(P1id, <<"p">>), Player(P1id, <<"q">>), Player(P2id, <<"p">>),
     Player(BadId, <<"p">>)}

\* Players whose name comes as a full-name string (two tokens, three tokens
\* with blanks around them, one token), not at all, as a blank, as a name
\* object with and without a last component, and next to a first_name.
NamedPlayer(id, first_name, last_name, name) ==
    [id |-> id, first_name |-> first_name, last_name |-> last_name,
     name |-> name]

BoJackson == <<"B", "o", " ", "J", "a", "c", "k", "s", "o", "n">>

BoJackRoe == <<" ", "B", "o", " ", " ", "J", "a", "c", "k", " ", "R", "o", "e", " ">>

NameEntries ==
    {NamedPlayer(P1id, None, None, BoJackson),
     NamedPlayer(P1id, None, None, BoJackRoe),
     NamedPlayer(P1id, None, None, <<"C", "h", "e", "r">>),
     NamedPlayer(P1id, None, None, None),
     NamedPlayer(P1id, <<" ">>, None, <<" ", " ">>),
     NamedPlayer(P1id, None, None, NameObj(<<"B", "o">>, None)),
     NamedPlayer(P1id, None, None, NameObj(<<"B", "o">>, <<"J">>)),
     NamedPlayer(P1id, None, None, NameObj(None, None)),
     NamedPlayer(P1id, <<"A", "l">>, None, BoJackson)}

\* The roster of team T1, or of a team that is not in the teams document,
\* with one such player.
NamesInputs ==
    {[BaseInput EXCEPT !.rosters =
         <<Item(key, Roster(<<p>>, <<>>, NoDict, NoDict, NoDict))>>] :
        key \in {T1id, T3id}, p \in NameEntries}

CoachEntries ==
    {Coach(K1id, <<"k">>), Coach(None, <<"k">>), Coach(K1id, None)}

PlayersInputs ==
    {[BaseInput EXCEPT !.rosters =
         [i \in 1..Len(g) |->
             Item(g[i][1], Roster(g[i][2], <<>>, NoDict, NoDict, NoDict))]] :
        g \in {x \in Groups(RosterKeys, PlayerEntries, MaxRosterEntries) :
                  DistinctHeads(x)}}

CoachesInputs ==
    {[BaseInput EXCEPT !.rosters =
         [i \in 1..Len(g) |->
             Item(g[i][1], Roster(<<>>, g[i][2], NoDict, NoDict, NoDict))]] :
        g \in {x \in Groups(RosterKeys, CoachEntries, MaxRosterEntries) :
                  DistinctHeads(x)}}

RosterLink(id, name) == [id |-> id, name |-> name, alias |-> None]

\* The conference and the division of a roster.
RosterLinks ==
    {<<NoDict, NoDict>>,
     <<NoDict, RosterLink(D2id, <<"E">>)>>,
     <<RosterLink(C1id, <<"A">>), NoDict>>,
     <<RosterLink(C1id, <<"A">>), RosterLink(D1id, <<"E">>)>>,
     <<RosterLink(C2id, <<"A">>), RosterLink(D2id, <<"E">>)>>,
     <<RosterLink(C2id, <<"A">>), RosterLink(D2id, None)>>,
     <<RosterLink(C2id, None), RosterLink(D2id, <<"E">>)>>,
     <<RosterLink(BadId, <<"B">>), RosterLink(D2id, <<"E">>)>>}

\* Rosters of T1, T2, ... in this order, each with a conference and a
\* division of its own.
RosterKeySeq == <<T1id, T2id, T3id, T1dashed>>

RosterLinkInputs ==
    {[BaseInput EXCEPT
         !.hierarchy = h,
         !.rosters = [i \in 1..Len(l) |->
             Item(RosterKeySeq[i],
                  Roster(<<Player(P1id, <<"p">>)>>, <<>>, l[i][1], l[i][2],
                         NoDict))]] :
        h \in {BaseHierarchy, NoDict},
        l \in ListsUpTo(RosterLinks, MaxRosters)}

StatEntries ==
    {PlayerStat(P1id, Int(3)), PlayerStat(P2id, <<"n", "a">>),
     PlayerStat(BadId, Int(3))}

StatKeys == {T1id, T3id}

\* The seasons and the rosters that come with a statistics document.
StatContexts ==
    {<<BaseSeasons, BaseRosters>>, <<BaseSeasons, <<>>>>,
     <<NoDict, BaseRosters>>, <<AltSeasons, BaseRosters>>}


StatsInputs ==
    {[BaseInput EXCEPT
         !.seasons = c[1],
         !.rosters = c[2],
         !.season_stats = [i \in 1..Len(g) |->
             Item(g[i][1], [players |-> g[i][2]])]] :
        c \in StatContexts,
        g \in {x \in Groups(StatKeys, StatEntries, MaxStatEntries) :
                  DistinctHeads(x)}}

RankEntries ==
    {RankItem(T1id, Int(1)), RankItem(T2id, Int(2)), RankItem(T3id, Int(1)),
     RankItem(BadId, Int(1))}

RankingsInputs ==
    {[BaseInput EXCEPT
         !.seasons = sd,
         !.rankings_current = Rankings(pw[1], pw[2], l),
         !.rankings_week1 = w1] :
        sd \in SeasonDocs,
        pw \in {<<[id |-> Poll1id, name |-> <<"A", "P">>], None>>,
                <<[id |-> Poll1id, name |-> <<"A", "P">>], Int(2)>>,
                <<NoDict, Int(2)>>},
        l \in ListsUpTo(RankEntries, MaxRankings),
        w1 \in {BaseRankings, NoDict}}

\* Schedule entries: teams of the teams document and others, ids of UUID
\* shape and of another shape, under either field name; an entry without
\* teams.
ScheduleEntries ==
    {Game([id |-> T1id], NoDict, [id |-> T3id], NoDict,
          Named(<<"v">>), <<"t">>, None, None),
     Game(NoDict, [id |-> T3id], NoDict, [id |-> T1dashed],
          NoDict, None, <<"t">>, None),
     Game([id |-> BadId], NoDict, NoDict, [id |-> T1id],
          Named(<<" ", "v">>), None, None, <<"t">>),
     Game(NoDict, NoDict, NoDict, NoDict, NoDict, None, None, None)}

\* A schedule document whose entries supply one field each: a team or
\* venue object under each of the five object fields, a time under each of
\* the three time fields.
ProbeObject == [id |-> T1id, name |-> <<"v">>]

ProbeTime == <<"t">>

ProbeSchedule ==
    [schedule |->
        <<Game(ProbeObject, NoDict, NoDict, NoDict, NoDict, None, None, None),
          Game(NoDict, ProbeObject, NoDict, NoDict, NoDict, None, None, None),
          Game(NoDict, NoDict, ProbeObject, NoDict, NoDict, None, None, None),
          Game(NoDict, NoDict, NoDict, ProbeObject, NoDict, None, None, None),
          Game(NoDict, NoDict, NoDict, NoDict, ProbeObject, None, None, None),
          Game(NoDict, NoDict, NoDict, NoDict, NoDict, ProbeTime, None, None),
          Game(NoDict, NoDict, NoDict, NoDict, NoDict, None, ProbeTime, None),
          Game(NoDict, NoDict, NoDict, NoDict, NoDict, None, None, ProbeTime)>>,
     games |-> <<>>]

ScheduleInputs ==
    {[BaseInput EXCEPT !.season_schedule = doc] :
        doc \in {ProbeSchedule}
                \cup {[schedule |-> l, games |-> <<>>] :
                         l \in ListsUpTo(ScheduleEntries, MaxGames)}
                \cup {[schedule |-> <<>>, games |-> l] :
                         l \in ListsUpTo(ScheduleEntries, MaxGames)}}

\* The documents of an earlier run: the entities of the well-formed input
\* under other names and values.
OldInput ==
    [BaseInput EXCEPT
        !.teams = [teams |-> <<Team(T1id, <<"o">>, Named(<<"A">>), NoDict, NoDict),
                               Team(T2id, <<"o">>, NoDict, NoDict, NoDict)>>],
        !.rosters = <<Item(T1id, Roster(<<Player(P1id, <<"o">>)>>,
                                        <<Coach(K1id, <<"o">>)>>,
                                        NoDict, NoDict, NoDict))>>,
        !.season_stats = <<Item(T1id, [players |-> <<PlayerStat(P1id, Int(9))>>])>>,
        !.rankings_current =
            Rankings([id |-> Poll1id, name |-> <<"A", "P">>], Int(2),
                     <<RankItem(T1id, Int(9))>>)]

\* The database that an earlier run of the pipeline has left.
OldStorage ==
    populate_all_tables(
        [NewPopulator EXCEPT !.conn = EmptyStorage],
        transformed_data(transform_all_data(NewTransformer, OldInput,
                                            Int(DefaultYear), REG, 0)),
        {}).conn

\* The databases that the populator may find when it connects.
PriorStorages == {EmptyStorage, OldStorage}

\* The tables whose INSERT the database may reject during a run.
Failures == {{}, {"rankings"}}

\* What step 3 of run_etl_pipeline may meet: no schema creation asked for,
\* a schema created, no schema file or no connection, and a schema script
\* that the database rejects.
SchemaOutcomes == {"skipped", "created", "not_connected", "execute_failed"}

\* A document that is absent: no key, null or empty.
Absent(key) == IF key \in {"rosters", "season_stats"} THEN <<>> ELSE NoDict

\* The well-formed input with any of its documents absent.
AbsenceInputs ==
    {[key \in DOMAIN BaseInput |->
         IF key \in missing THEN Absent(key) ELSE BaseInput[key]] :
        missing \in SUBSET DOMAIN BaseInput}

\* Present documents with records of the wrong shape: a string where the
\* hierarchy lists a division, where a roster lists a player or a coach,
\* where the rosters hold a roster, where a schedule entry holds a team or
\* a venue, and where the schedule lists an entry.
MalformedHierarchy ==
    [divisions |-> <<NotMapping>> \o BaseHierarchy.divisions]

MalformedRosters ==
    <<Item(T1id, Roster(<<NotMapping, Player(P1id, <<"p">>)>>,
                        <<NotMapping, Coach(K1id, <<"k">>)>>,
                        NoDict, NoDict, NoDict)),
      Item(T2id, NotMapping)>>

MalformedSchedules ==
    {[schedule |-> l, games |-> <<>>] :
        l \in {<<Game(NotMapping, NoDict, NotMapping, NoDict, NotMapping,
                      <<"t">>, None, None)>>,
               <<NotMapping>>,
               BaseSchedule.schedule \o <<NotMapping>>}}

MalformedInputs ==
    {[BaseInput EXCEPT !.hierarchy = MalformedHierarchy],
     [BaseInput EXCEPT !.rosters = MalformedRosters]}
    \cup {[BaseInput EXCEPT !.season_schedule = doc] : doc \in MalformedSchedules}

\* The inputs whose records do not depend on the season type, and those
\* whose records do.
StructuralInputs ==
    HierarchyInputs \cup TeamsInputs \cup PlayersInputs \cup CoachesInputs
    \cup RosterLinkInputs \cup AbsenceInputs \cup ScheduleInputs
    \cup MalformedInputs \cup NamesInputs

SeasonalInputs == StatsInputs \cup RankingsInputs

----------------------------------------------------------------------------
(* transformer = DataTransformer(); transformer.transform_all_data(...)    *)

\* Step 3 of run_etl_pipeline: SchemaCreator(), create_database (which
\* opens and closes a connection of its own and whose result is not read)
\* and create_schema, then close() when create_schema returned True.
\* create_schema returns False without a connection when the schema file is
\* missing or connect() fails, and with its connection open when the
\* script fails.
CreateSchema ==
    /\ pc = "returned"
    /\ \E outcome \in SchemaOutcomes :
          \/ /\ outcome \in {"skipped", "created"}
             /\ pc' = "populate"
             /\ UNCHANGED <<schema_creator, result>>
          \/ /\ outcome = "not_connected"
             /\ pc' = "done"
             /\ result' = False
             /\ UNCHANGED schema_creator
          \/ /\ outcome = "execute_failed"
             /\ pc' = "done"
             /\ result' = False
             /\ schema_creator' = [schema_creator EXCEPT !.conn = OpenConn]
    /\ UNCHANGED <<self, all_api_data, year, season_type, populator, heights>>

\* populator = DatabasePopulator(); populate_all_tables(transformed_data):
\* the connection, which shows what the database holds, then the inserts.
\* When connect() fails, populate_all_tables and the pipeline return False.
Connect ==
    /\ pc = "populate"
    /\ \/ /\ \E prior \in PriorStorages :
                populator' = [populator EXCEPT !.conn = prior]
          /\ pc' = "connected"
          /\ UNCHANGED result
       \/ /\ pc' = "done"
          /\ result' = False
          /\ UNCHANGED populator
    /\ UNCHANGED <<self, all_api_data, year, season_type, schema_creator, heights>>

PopulateAllTables ==
    /\ pc = "connected"
    /\ \E failing \in Failures :
          populator' = populate_all_tables(populator, transformed_data(self),
                                           failing)
    /\ pc' = "populated"
    /\ UNCHANGED <<self, all_api_data, year, season_type, schema_creator,
                   result, heights>>

\* populate_all_tables has returned True: populator.close(); return True
ClosePopulator ==
    /\ pc = "populated"
    /\ populator' = [populator EXCEPT !.conn = NoConn]
    /\ result' = True
    /\ pc' = "done"
    /\ UNCHANGED <<self, all_api_data, year, season_type, schema_creator, heights>>

\* except Exception as e: ...; return False
HandleException ==
    /\ pc = "raised"
    /\ pc' = "done"
    /\ result' = False
    /\ UNCHANGED <<self, all_api_data, year, season_type, populator,
                   schema_creator, heights>>

Init ==
    /\ \/ all_api_data \in StructuralInputs /\ season_type = REG
       \/ all_api_data \in SeasonalInputs /\ season_type \in {REG, PST}
    /\ year = Int(DefaultYear)
    /\ self = NewTransformer
    /\ populator = NewPopulator
    /\ schema_creator = NewSchemaCreator
    /\ result = None
    /\ height_str = None /\ height = None
    /\ pc = "hierarchy"

Next ==
    \/ StageHierarchy
    \/ StageVenues
    \/ StageTeams
    \/ StageSeasons
    \/ StagePlayers
    \/ StageCoaches
    \/ StagePlayerStatistics
    \/ StageRankingsCurrent
    \/ StageRankingsWeek1
    \/ StageSchedule
    \/ Return
    \/ HandleException
    \/ CreateSchema
    \/ Connect
    \/ PopulateAllTables
    \/ ClosePopulator

Spec == Init /\ [][Next]_vars

----------------------------------------------------------------------------
(* A transformer on which transform_seasons is called several times: the   *)
(* documents of the calls so far are kept in all_api_data.                 *)

SeasonCallDocs ==
    {BaseSeasons, AltSeasons, NoDict,
     [seasons |-> <<Season(None, Int(2024), REG)>>],
     [seasons |-> <<Season(S1id, Int(DefaultYear), PST),
                    Season(None, Int(DefaultYear), REG)>>]}

SeasonsInit ==
    /\ all_api_data = <<>>
    /\ year = Int(DefaultYear)
    /\ season_type = REG
    /\ self = NewTransformer
    /\ populator = NewPopulator
    /\ schema_creator = NewSchemaCreator
    /\ result = None
    /\ height_str = None /\ height = None
    /\ pc = "transform_seasons"

CallTransformSeasons ==
    /\ pc = "transform_seasons"
    /\ Len(all_api_data) < MaxCalls
    /\ \E seasons_data \in SeasonCallDocs, r \in Urandom :
          /\ self' = Done(transform_seasons(Reading(self, r), seasons_data))
          /\ all_api_data' = Append(all_api_data, seasons_data)
    /\ UNCHANGED <<pc, year, season_type, pipeline, heights>>

SeasonsNext == CallTransformSeasons

SeasonsSpec == SeasonsInit /\ [][SeasonsNext]_vars

----------------------------------------------------------------------------
(* A call of convert_height_to_inches.                                     *)

HeightChars == {"1", "2", "-", "'", "\"", "t", " ", SuperscriptTwo}

HeightInputs ==
    {None, Int(0), Int(75), Float(6)} \cup ListsUpTo(HeightChars, MaxHeightLen)

HeightInit ==
    /\ all_api_data = NoDict
    /\ year = Int(DefaultYear)
    /\ season_type = REG
    /\ self = NewTransformer
    /\ populator = NewPopulator
    /\ schema_creator = NewSchemaCreator
    /\ result = None
    /\ height_str \in HeightInputs
    /\ height = None
    /\ pc = "convert_height_to_inches"

ConvertHeight ==
    /\ pc = "convert_height_to_inches"
    /\ height' = convert_height_to_inches(height_str)
    /\ pc' = "converted"
    /\ UNCHANGED <<self, all_api_data, year, season_type, pipeline, height_str>>

HeightNext == ConvertHeight

HeightSpec == HeightInit /\ [][HeightNext]_vars

----------------------------------------------------------------------------
(* Properties.                                                             *)

Rows(table) == {table[i] : i \in 1..Len(table)}

Column(table, field) == {table[i][field] : i \in 1..Len(table)}

Returned == pc = "returned"

\* The stage at pc comes after the given stage.
After(stage) ==
    LET positions == Stages \o <<"populate", "connected", "populated">>
    IN  \E i, j \in 1..Len(positions) :
            positions[i] = stage /\ positions[j] = pc /\ i < j

\* C1: after transform_all_data on a fresh transformer, every foreign key
\* that is not null on a team (conference_id, division_id, venue_id), a
\* player (team_id), a coach (team_id), a player statistic (player_id,
\* team_id, season_id) and a ranking (team_id, season_id) is the primary id
\* of a record of the table it refers to.
C1_ForeignKeysResolve ==
    Returned =>
        /\ \A t \in Rows(self.teams) :
              /\ t.conference_id # None =>
                    t.conference_id \in Column(self.conferences, "conference_id")
              /\ t.division_id # None =>
                    t.division_id \in Column(self.divisions, "division_id")
              /\ t.venue_id # None =>
                    t.venue_id \in Column(self.venues, "venue_id")
        /\ \A p \in Rows(self.players) :
              p.team_id # None => p.team_id \in Column(self.teams, "team_id")
        /\ \A c \in Rows(self.coaches) :
              c.team_id # None => c.team_id \in Column(self.teams, "team_id")
        /\ \A r \in Rows(self.player_statistics) :
              /\ r.player_id # None =>
                    r.player_id \in Column(self.players, "player_id")
              /\ r.team_id # None => r.team_id \in Column(self.teams, "team_id")
              /\ r.season_id # None =>
                    r.season_id \in Column(self.seasons, "season_id")
        /\ \A r \in Rows(self.rankings) :
              /\ r.team_id # None => r.team_id \in Column(self.teams, "team_id")
              /\ r.season_id # None =>
                    r.season_id \in Column(self.seasons, "season_id")

\* A run has returned with a team that references a conference, a division
\* and a venue, and with a player, a coach, a statistic and a ranking.
C1_Witness ==
    /\ Returned
    /\ \E t \in Rows(self.teams) :
          t.conference_id # None /\ t.division_id # None /\ t.venue_id # None
    /\ self.players # <<>> /\ self.coaches # <<>>
    /\ \E r \in Rows(self.player_statistics) : r.season_id # None
    /\ \E r \in Rows(self.rankings) : r.season_id # None

\* C2: every division record, from the hierarchy or from a roster, has a
\* conference_id that is null or the conference_id of a record of the
\* conferences table.
C2_DivisionConferenceResolves ==
    \A d \in Rows(self.divisions) :
        d.conference_id # None =>
            d.conference_id \in Column(self.conferences, "conference_id")

\* C3: the teams table holds at most one record for each team id.
C3_OneTeamRecordPerId ==
    \A i, j \in 1..Len(self.teams) :
        self.teams[i].team_id = self.teams[j].team_id => i = j

\* C5: the coaches table holds at most one record for each coach id.
C5_OneCoachRecordPerId ==
    \A i, j \in 1..Len(self.coaches) :
        self.coaches[i].coach_id = self.coaches[j].coach_id => i = j

\* The players of the rosters whose team is in the teams table that have
\* an id of UUID shape, in the order of processing, each with the roster's
\* team.
RECURSIVE RosterOccurrences(_, _)
RosterOccurrences(items, known_teams) ==
    IF items = <<>> THEN <<>>
    ELSE LET l == safe_get_list(Head(items).value, "players")
             here == IF Head(items).key \in known_teams
                     THEN [i \in 1..Len(l) |->
                              [player_id |-> normalize_uuid(
                                                 safe_get(l[i], "id", None)),
                               team_id   |-> Head(items).key,
                               names     |-> player_names(l[i])]]
                     ELSE <<>>
         IN  SelectSeq(here, LAMBDA o : o.player_id # None)
             \o RosterOccurrences(Tail(items), known_teams)

Occurrences ==
    RosterOccurrences(all_api_data.rosters, Column(self.teams, "team_id"))

FirstOccurrence(id) ==
    Occurrences[CHOOSE i \in 1..Len(Occurrences) :
                   /\ Occurrences[i].player_id = id
                   /\ \A j \in 1..(i - 1) : Occurrences[j].player_id # id]

\* C4: after transform_players the players table holds exactly one record
\* for each player id of UUID shape found in the rosters of the teams of the
\* teams table, and that record has the team and the names of the first
\* such occurrence in the order of processing.
C4_FirstPlayerOccurrenceWins ==
    After("players") =>
        /\ \A i, j \in 1..Len(self.players) :
              self.players[i].player_id = self.players[j].player_id => i = j
        /\ Column(self.players, "player_id") = Column(Occurrences, "player_id")
        /\ \A r \in Rows(self.players) :
              /\ r.team_id = FirstOccurrence(r.player_id).team_id
              /\ r.first_name = FirstOccurrence(r.player_id).names[1]
              /\ r.last_name = FirstOccurrence(r.player_id).names[2]

\* transform_players has met a player id twice, with another team or
\* another name the second time.
C4_Witness ==
    /\ After("players")
    /\ \E i, j \in 1..Len(Occurrences) :
          /\ i < j
          /\ Occurrences[i].player_id = Occurrences[j].player_id
          /\ \/ Occurrences[i].team_id # Occurrences[j].team_id
             \/ Occurrences[i].names # Occurrences[j].names
    /\ self.players # <<>>

\* The division entries of the hierarchy document that have a name.
NamedDivisions ==
    IF all_api_data.hierarchy = NoDict THEN {}
    ELSE {i \in 1..Len(all_api_data.hierarchy.divisions) :
             normalize_string(safe_get(all_api_data.hierarchy.divisions[i],
                                       "name", None)) # None}

HierarchyDivision(i) == all_api_data.hierarchy.divisions[i]

\* The conference entries with a name listed under division entry i.
NamedConferences(i) ==
    {c \in Rows(HierarchyDivision(i).conferences) :
        normalize_string(c.name) # None}

\* C6: after transform_hierarchy, a conference entry listed under several
\* divisions of the hierarchy document is recorded exactly once in the
\* conferences table (one record with its name and, when the entry has an
\* id of UUID shape, with that id).
C6_ConferenceRecordedOnce ==
    pc = "venues" =>
        \A i, j \in NamedDivisions :
            \A c \in NamedConferences(i) \cap NamedConferences(j) :
                i # j =>
                    Cardinality(
                        {k \in 1..Len(self.conferences) :
                            /\ self.conferences[k].name = normalize_string(c.name)
                            /\ normalize_uuid(c.id) # None =>
                                  self.conferences[k].conference_id
                                      = normalize_uuid(c.id)}) = 1

\* C7: the identity that conference_id_map holds for a conference name
\* never changes once it is assigned.
C7_ConferenceIdentityStable ==
    [][\A name \in DOMAIN self.conference_id_map :
          self'.conference_id_map[name] = self.conference_id_map[name]]_vars

\* No two division entries of the hierarchy document carry the same id of
\* UUID shape.
DivisionIdsDistinct ==
    \A i, j \in NamedDivisions :
        /\ i # j
        /\ normalize_uuid(HierarchyDivision(i).id) # None
        => normalize_uuid(HierarchyDivision(i).id)
               # normalize_uuid(HierarchyDivision(j).id)

\* Two division entries with one name, each under a conference of its own.
SameNameTwoConferences(i, j) ==
    /\ i # j
    /\ normalize_string(HierarchyDivision(i).name)
           = normalize_string(HierarchyDivision(j).name)
    /\ \E c \in NamedConferences(i), d \in NamedConferences(j) :
          normalize_string(c.name) # normalize_string(d.name)

C9_DivisionScopedByConference ==
    pc = "venues" =>
        \A key \in DOMAIN self.division_id_map :
            \E d \in Rows(self.divisions) :
                /\ d.division_id = self.division_id_map[key]
                /\ d.conference_id = key[1]

\* The player ids of UUID shape in the rosters of the teams of the teams
\* table.
SeenPlayers == Column(Occurrences, "player_id")

\* C10: every record of transform_player_statistics is of a player seen in
\* a processed roster and of a team of the teams table, both named by an
\* entry of the statistics document; a player never seen in a processed
\* roster has no record.
C10_StatisticsOnlyForKnownPlayers ==
    After("player_statistics") =>
        /\ \A r \in Rows(self.player_statistics) :
              /\ r.player_id \in SeenPlayers
              /\ r.team_id \in Column(self.teams, "team_id")
              /\ \E it \in Rows(all_api_data.season_stats) :
                    /\ it.key = r.team_id
                    /\ \E e \in Rows(it.value.players) :
                          normalize_uuid(e.id) = r.player_id
        /\ \A it \in Rows(all_api_data.season_stats) :
              \A e \in Rows(it.value.players) :
                  normalize_uuid(e.id) \notin SeenPlayers =>
                      \A r \in Rows(self.player_statistics) :
                          r.player_id # normalize_uuid(e.id)

\* transform_player_statistics has emitted a record and has skipped an
\* entry of a player of no processed roster, under a team of the table.
C10_Witness ==
    /\ After("player_statistics")
    /\ self.player_statistics # <<>>
    /\ \E it \in Rows(all_api_data.season_stats) :
          /\ it.key \in Column(self.teams, "team_id")
          /\ \E e \in Rows(it.value.players) :
                /\ normalize_uuid(e.id) # None
                /\ normalize_uuid(e.id) \notin SeenPlayers

\* The season key of the run is not in season_id_map.
SeasonLookupFails(stype) == MapGet(self.season_id_map, <<year, stype>>) = None

\* C11: when the season key (year, season_type) of the run is not in
\* season_id_map, the step of transform_player_statistics leaves the
\* player_statistics table as it was.
C11_StatisticsSkippedWithoutSeason ==
    [][pc = "player_statistics" /\ SeasonLookupFails(season_type)
          => self'.player_statistics = self.player_statistics]_vars

\* transform_player_statistics has returned on a failed season lookup, with
\* a statistics document that names a team of team_id_map and a player of
\* player_id_map.
C11_Witness ==
    /\ pc = "rankings_current"
    /\ SeasonLookupFails(season_type)
    /\ self.player_statistics = <<>>
    /\ \E it \in Rows(all_api_data.season_stats) :
          /\ MapGet(self.team_id_map, it.key) # None
          /\ \E e \in Rows(it.value.players) :
                /\ normalize_uuid(e.id) # None
                /\ MapGet(self.player_id_map, normalize_uuid(e.id)) # None

\* The ranking item names a team of team_id_map.
RankItemResolves(rank_item) ==
    /\ normalize_uuid(rank_item.id) # None
    /\ MapGet(self.team_id_map, normalize_uuid(rank_item.id)) # None

\* The items of the current rankings document that name a known team.
ResolvedRankItems ==
    SelectSeq(all_api_data.rankings_current.rankings, RankItemResolves)

\* C12: when the season lookup of transform_rankings fails, the rankings
\* table holds one record for each item whose team id resolves, in the
\* order of the document, with that team and season_id null, and no
\* record for any other item.
C12_RankingsEmittedWithoutSeason ==
    /\ pc = "rankings_week1"
    /\ all_api_data.rankings_current # NoDict
    /\ SeasonLookupFails(REG)
    => /\ Len(self.rankings) = Len(ResolvedRankItems)
       /\ \A i \in 1..Len(self.rankings) :
             /\ self.rankings[i].team_id
                   = MapGet(self.team_id_map,
                            normalize_uuid(ResolvedRankItems[i].id))
             /\ self.rankings[i].season_id = None
             /\ self.rankings[i].rank = normalize_int(ResolvedRankItems[i].rank)

\* transform_rankings has emitted a record and skipped an item on a failed
\* season lookup.
C12_Witness ==
    /\ pc = "rankings_week1"
    /\ all_api_data.rankings_current # NoDict
    /\ SeasonLookupFails(REG)
    /\ self.rankings # <<>>
    /\ Len(self.rankings) < Len(all_api_data.rankings_current.rankings)

\* C13: a second run of transform_all_data on the same documents, by a
\* fresh transformer, returns the tables that this run returned, record
\* for record and identifier for identifier.
C13_RunsIdentical ==
    Returned =>
        \A r \in Urandom :
            transformed_data(transform_all_data(NewTransformer, all_api_data,
                                                year, season_type, r))
                = transformed_data(self)

\* The order of the stages, then the compilation of the result and the
\* return.
StageOrder ==
    <<"hierarchy", "venues", "teams", "seasons", "players", "coaches",
      "player_statistics", "rankings_current", "rankings_week1",
      "season_schedule", "compile", "returned">>

\* The attributes of the transformer that a stage may write.
StageWrites(stage) ==
    CASE stage = "hierarchy" ->
            {"conferences", "divisions", "conference_id_map",
             "division_id_map", "venues", "venue_id_map", "uuid_calls"}
      [] stage = "venues" -> {"venues", "venue_id_map"}
      [] stage = "teams" -> {"teams", "team_id_map"}
      [] stage = "seasons" -> {"seasons", "season_id_map", "uuid_calls"}
      [] stage = "players" ->
            {"players", "player_id_map", "conferences", "divisions",
             "conference_id_map", "division_id_map", "venues", "venue_id_map"}
      [] stage = "coaches" -> {"coaches", "uuid_calls"}
      [] stage = "player_statistics" -> {"player_statistics"}
      [] stage = "rankings_current" -> {"rankings", "uuid_calls"}
      [] stage = "rankings_week1" -> {"rankings", "uuid_calls"}
      [] stage = "season_schedule" -> {"schedule_file"}
      [] OTHER -> {}

\* C14: every step of transform_all_data is the next stage of the order
\* hierarchy, venues, teams, seasons, players, coaches, player statistics,
\* current rankings, weekly rankings, schedule, whether the stage's
\* document is present or absent, and writes only what that stage writes:
\* no stage acts before an earlier one has finished.
C14_StagesInOrder ==
    [][(\E i \in 1..(Len(StageOrder) - 1) : pc = StageOrder[i]) =>
          /\ \E i \in 1..(Len(StageOrder) - 1) :
                pc = StageOrder[i] /\ pc' \in {StageOrder[i + 1], "raised"}
          /\ \A f \in DOMAIN self :
                f \notin StageWrites(pc) => self'[f] = self[f]]_vars

\* A run in which every stage has produced its records has returned.
C14_Witness ==
    /\ Returned
    /\ self.conferences # <<>> /\ self.divisions # <<>>
    /\ self.venues # <<>> /\ self.teams # <<>> /\ self.seasons # <<>>
    /\ self.players # <<>> /\ self.coaches # <<>>
    /\ self.player_statistics # <<>> /\ self.rankings # <<>>
    /\ self.schedule_file.written

IsAbsent(key) == all_api_data[key] = Absent(key)

\* C15: a stage whose document is absent leaves its tables empty: nothing
\* is written by the hierarchy stage, no team, no season, no player and no
\* coach, no statistic, no ranking, no schedule file; and the later stages
\* run whatever is absent before them: the teams of a teams document with
\* valid ids are recorded and the schedule file of a schedule document is
\* written.
C15_AbsentInputsSkipped ==
    /\ all_api_data.teams = BaseTeams /\ After("teams") =>
          Len(self.teams) = Len(BaseTeams.teams)
    /\ ~IsAbsent("season_schedule") /\ After("season_schedule") =>
          self.schedule_file.written
    /\ IsAbsent("hierarchy") /\ pc = "venues" => self = NewTransformer
    /\ IsAbsent("teams") /\ After("teams") =>
          self.teams = <<>> /\ self.team_id_map = EmptyMap
    /\ IsAbsent("seasons") /\ After("seasons") =>
          self.seasons = <<>> /\ self.season_id_map = EmptyMap
    /\ IsAbsent("rosters") /\ After("coaches") =>
          self.players = <<>> /\ self.coaches = <<>>
    /\ IsAbsent("season_stats") /\ After("player_statistics") =>
          self.player_statistics = <<>>
    /\ IsAbsent("rankings_current") /\ pc = "rankings_week1" =>
          self.rankings = <<>>
    /\ IsAbsent("rankings_current") /\ IsAbsent("rankings_week1")
          /\ After("rankings_week1") => self.rankings = <<>>
    /\ IsAbsent("season_schedule") /\ After("season_schedule") =>
          ~self.schedule_file.written

\* A run without seasons and rosters has returned, with the records of the
\* stages before and after them.
C15_Witness ==
    /\ Returned
    /\ IsAbsent("seasons") /\ IsAbsent("rosters")
    /\ self.teams # <<>> /\ self.rankings # <<>>
    /\ self.schedule_file.written

\* C16: the table set that transform_all_data returns has the ten tables
\* conferences, divisions, venues, teams, seasons, players, coaches,
\* player_statistics, rankings and schedule games: the games that
\* transform_schedule produced are one of the returned tables.
C16_ScheduleGamesReturned ==
    Returned /\ self.schedule_file.games # <<>> =>
        /\ Cardinality(DOMAIN transformed_data(self)) = 10
        /\ \E table \in DOMAIN transformed_data(self) :
              transformed_data(self)[table] = self.schedule_file.games

\* The tables that the rows of a table reference.
ParentTables(table) ==
    CASE table = "divisions" -> {"conferences"}
      [] table = "teams" -> {"conferences", "divisions", "venues"}
      [] table = "players" -> {"teams"}
      [] table = "coaches" -> {"teams"}
      [] table = "player_statistics" -> {"players", "teams", "seasons"}
      [] table = "rankings" -> {"teams", "seasons"}
      [] OTHER -> {}

\* C17: in the order in which populate_all_tables writes the rows, no row
\* of a table comes before a row of a table that it references:
\* conferences before divisions; conferences, divisions and venues before
\* teams; teams before players and coaches; players, teams and seasons
\* before player_statistics; teams and seasons before rankings.
C17_ParentsWrittenFirst ==
    pc = "populated" =>
        \A i, j \in 1..Len(populator.insert_statements) :
            i < j => populator.insert_statements[j].table
                        \notin ParentTables(populator.insert_statements[i].table)

\* populate_all_tables has written rows of all nine tables.
C17_Witness ==
    /\ pc = "populated"
    /\ \A table \in DOMAIN PrimaryKey :
          \E i \in 1..Len(populator.insert_statements) :
              populator.insert_statements[i].table = table

\* C18: populate_all_tables replaces the stored row of every primary key
\* that a record of the run carries: for each of the nine tables whose
\* insert the database accepts and each record whose key is in the table
\* before the call, the table holds after the call one row of that key,
\* equal to the last record of the run with that key.
C18_UpsertReplaces ==
    [][pc = "connected" =>
          \A table \in DOMAIN PrimaryKey :
              LET records == transformed_data(self)[table]
                  key     == PrimaryKey[table]
              IN  \A i \in 1..Len(records) :
                      /\ \E k \in 1..Len(populator'.insert_statements) :
                            populator'.insert_statements[k].table = table
                      /\ \E row \in Rows(populator.conn[table]) :
                            row[key] = records[i][key]
                      /\ \A j \in (i + 1)..Len(records) :
                            records[j][key] # records[i][key]
                      => {row \in Rows(populator'.conn[table]) :
                             row[key] = records[i][key]} = {records[i]}]_vars

\* The games that transform_schedule has written.
Games == self.schedule_file.games

\* C19: of the entries of a schedule document that supply the home team,
\* the away team, the venue or the kickoff time under one field name each,
\* at least three (three names) yield a game with that value, for each of
\* the four.
C19_ThreeNamesPerConcept ==
    After("season_schedule") /\ all_api_data.season_schedule = ProbeSchedule =>
        /\ Cardinality({i \in 1..Len(Games) :
               Games[i].home_team_api_id = ProbeObject.id}) >= 3
        /\ Cardinality({i \in 1..Len(Games) :
               Games[i].away_team_api_id = ProbeObject.id}) >= 3
        /\ Cardinality({i \in 1..Len(Games) :
               Games[i].venue_name = ProbeObject.name}) >= 3
        /\ Cardinality({i \in 1..Len(Games) :
               Games[i].scheduled = ProbeTime}) >= 3

\* The entries of the schedule document of the run.
ScheduleItems == schedule_list(all_api_data.season_schedule)

\* The id of the team object that an entry gives under one of two names,
\* null when it gives none.
RawTeamId(item, k1, k2) ==
    IF item[k1] # NoDict THEN safe_get(item[k1], "id", None)
    ELSE IF item[k2] # NoDict THEN safe_get(item[k2], "id", None)
    ELSE None

\* C20: the home and away team references of every game are the ids of
\* the entry as given, whether or not they are ids of teams of
\* team_id_map.
C20_ScheduleIdsRaw ==
    After("season_schedule") /\ all_api_data.season_schedule # NoDict =>
        /\ Len(Games) = Len(ScheduleItems)
        /\ \A i \in 1..Len(Games) :
              /\ Games[i].home_team_api_id
                    = RawTeamId(ScheduleItems[i], "home", "home_team")
              /\ Games[i].away_team_api_id
                    = RawTeamId(ScheduleItems[i], "away", "away_team")

\* The entries of the teams document that have an id of UUID shape, in the
\* order of the document: transform_teams appends one record for each.
TeamsWithId ==
    IF all_api_data.teams = NoDict THEN <<>>
    ELSE SelectSeq(all_api_data.teams.teams,
                   LAMBDA t : normalize_uuid(t.id) # None)

\* The venue of the entry has a name and no id of UUID shape.
VenueByNameOnly(team) ==
    /\ team.venue # NoDict
    /\ normalize_uuid(team.venue.id) = None
    /\ normalize_string(team.venue.name) # None

\* C21: a venue that a team of the teams document gives without an id of
\* UUID shape is a record of the venues table under its name, the team's
\* record references that record (venue_id not null), and two teams that
\* give one such name reference one record.
C21_VenueIdentifiedByName ==
    After("teams") =>
        /\ Len(self.teams) = Len(TeamsWithId)
        /\ \A i \in 1..Len(self.teams) :
              VenueByNameOnly(TeamsWithId[i]) =>
                  /\ self.teams[i].venue_id # None
                  /\ \E k \in 1..Len(self.venues) :
                        /\ self.venues[k].venue_id = self.teams[i].venue_id
                        /\ self.venues[k].name
                              = normalize_string(TeamsWithId[i].venue.name)
                  /\ \A j \in 1..Len(self.teams) :
                        /\ VenueByNameOnly(TeamsWithId[j])
                        /\ normalize_string(TeamsWithId[j].venue.name)
                              = normalize_string(TeamsWithId[i].venue.name)
                        => self.teams[j].venue_id = self.teams[i].venue_id

\* C22: no stage of transform_all_data raises on a present document that
\* holds records of the wrong shape: the call returns, and the tables it
\* returns are those of the same documents without these records.
C22_MalformedRecordsSkipped ==
    /\ pc # "raised"
    /\ Returned /\ all_api_data \in MalformedInputs =>
          transformed_data(self)
              = transformed_data(transform_all_data(NewTransformer, BaseInput,
                                                    year, season_type, 0))

\* The maximal runs of non-blank characters of a string, as pairs of their
\* first and last position.
TokenRuns(str_value) ==
    {run \in (1..Len(str_value)) \X (1..Len(str_value)) :
        /\ run[1] <= run[2]
        /\ \A k \in run[1]..run[2] : str_value[k] \notin Whitespace
        /\ run[1] = 1 \/ str_value[run[1] - 1] \in Whitespace
        /\ run[2] = Len(str_value) \/ str_value[run[2] + 1] \in Whitespace}

\* The tokens of a string in their order.
Tokens(str_value) ==
    LET runs == TokenRuns(str_value)
        nth(n) == CHOOSE run \in runs :
                      Cardinality({q \in runs : q[1] < run[1]}) = n - 1
    IN  [n \in 1..Cardinality(runs) |->
            SubSeq(str_value, nth(n)[1], nth(n)[2])]

\* The string has no blank at its ends and no two blanks in a row.
SingleSpaced(str_value) ==
    /\ str_value # <<>>
    /\ str_value[1] \notin Whitespace
    /\ str_value[Len(str_value)] \notin Whitespace
    /\ \A k \in 1..(Len(str_value) - 1) :
          ~(str_value[k] \in Whitespace /\ str_value[k + 1] \in Whitespace)

\* The players that the rosters of the run list, each with the key of its
\* roster.
RosterPlayers ==
    UNION {{[player |-> p, key |-> it.key] :
               p \in Rows(safe_get_list(it.value, "players"))} :
           it \in Rows(all_api_data.rosters)}

\* Those whose team is in team_id_map and whose id is of UUID shape.
ResolvedPlayers ==
    {o.player : o \in
        {x \in RosterPlayers :
            /\ MapGet(self.team_id_map, x.key) # None
            /\ normalize_uuid(safe_get(x.player, "id", None)) # None}}

\* The player's name comes only as a string of two or more tokens.
NameOnlyAsString(player) ==
    /\ player.first_name = None /\ player.last_name = None
    /\ IsStr(player.name)
    /\ Cardinality(TokenRuns(player.name)) >= 2

\* C23: a player with an id of UUID shape on a team of team_id_map whose
\* name comes only as a string of two or more tokens has a record whose
\* last_name is the last token and whose first_name is the tokens before
\* it, joined by single blanks.
C23_FullNameSplit ==
    After("players") =>
        \A player \in ResolvedPlayers :
            NameOnlyAsString(player) =>
                \E r \in Rows(self.players) :
                    LET tokens == Tokens(player.name)
                    IN  /\ r.player_id = player.id
                        /\ r.last_name = tokens[Len(tokens)]
                        /\ r.first_name # None
                        /\ SingleSpaced(r.first_name)
                        /\ Tokens(r.first_name)
                              = SubSeq(tokens, 1, Len(tokens) - 1)

\* transform_players has recorded a player whose name is a string of three
\* tokens with blanks before, between and after them.
C23_Witness ==
    /\ After("players")
    /\ \E player \in ResolvedPlayers :
          /\ NameOnlyAsString(player)
          /\ Cardinality(TokenRuns(player.name)) = 3
          /\ Head(player.name) \in Whitespace
          /\ \E r \in Rows(self.players) :
                r.player_id = player.id /\ Len(r.first_name) > 2

\* The field is missing, null or blank.
NoText(value) == value = None \/ (IsStr(value) /\ strip(value) = <<>>)

\* The player has no last_name, no first_name and no name.
NoNameInformation(player) ==
    NoText(player.last_name) /\ NoText(player.first_name) /\ NoText(player.name)

Unknown == <<"U", "n", "k", "n", "o", "w", "n">>

LinkName(team, key) ==
    normalize_string(safe_get(safe_get_dict(team, key), "name", None))

\* C25: when transform_teams has run, the teams table holds one record for
\* each team of the document with an id of UUID shape, in the order of the
\* document, whether or not its conference, division and venue resolve.  A
\* conference name that conference_id_map does not hold gives a null
\* conference_id, a venue without an id of venue_id_map a null venue_id,
\* and division_id is not null only when conference_id is not null and
\* division_id_map holds the pair of that conference and the division name.
C25_TeamKeptWithNullLinks ==
    pc = "seasons" =>
        /\ Len(self.teams) = Len(TeamsWithId)
        /\ \A i \in 1..Len(self.teams) :
              LET team == TeamsWithId[i]
                  r    == self.teams[i]
              IN  /\ r.team_id = team.id
                  /\ LinkName(team, "conference")
                         \notin DOMAIN self.conference_id_map
                     => r.conference_id = None
                  /\ r.conference_id # None =>
                        r.conference_id
                            = self.conference_id_map[LinkName(team, "conference")]
                  /\ r.division_id # None =>
                        /\ r.conference_id # None
                        /\ <<r.conference_id, LinkName(team, "division")>>
                               \in DOMAIN self.division_id_map
                        /\ r.division_id
                               = self.division_id_map[
                                     <<r.conference_id, LinkName(team, "division")>>]
                  /\ normalize_uuid(safe_get(safe_get_dict(team, "venue"),
                                             "id", None))
                         \notin DOMAIN self.venue_id_map
                     => r.venue_id = None

\* transform_teams has recorded a team that names a conference and a
\* division which do not resolve, and a team whose division resolves.
C25_Witness ==
    /\ pc = "seasons"
    /\ \E i \in 1..Len(self.teams) :
          /\ LinkName(TeamsWithId[i], "conference") # None
          /\ LinkName(TeamsWithId[i], "division") # None
          /\ self.teams[i].conference_id = None
          /\ self.teams[i].division_id = None
    /\ self.conferences # <<>>

\* The key (year, type code) of a season entry.
SeasonKey(season) ==
    <<normalize_int(safe_get(season, "year", None)),
      normalize_string(safe_get(safe_get_dict(season, "type"), "code", None))>>

\* The keys of the entries of a seasons document that have a year and a
\* type code.
SeasonKeys(seasons_data) ==
    {SeasonKey(season) : season \in
        {e \in Rows(safe_get_list(seasons_data, "seasons")) :
            Truthy(SeasonKey(e)[1]) /\ SeasonKey(e)[2] # None}}

\* The keys seen by the calls of transform_seasons so far.
KeysSeen(calls) == UNION {SeasonKeys(calls[i]) : i \in 1..Len(calls)}

\* One record for each key seen, and the map from each key to its record.
OneSeasonPerKey(s, calls) ==
    /\ DOMAIN s.season_id_map = KeysSeen(calls)
    /\ \A k \in 1..Len(s.seasons) :
          <<s.seasons[k].year, s.seasons[k].type_code>> \in KeysSeen(calls)
    /\ \A key \in KeysSeen(calls) :
          /\ Cardinality({k \in 1..Len(s.seasons) :
                 <<s.seasons[k].year, s.seasons[k].type_code>> = key}) = 1
          /\ \A k \in 1..Len(s.seasons) :
                <<s.seasons[k].year, s.seasons[k].type_code>> = key =>
                    s.seasons[k].season_id = s.season_id_map[key]

\* C26: after every call of transform_seasons on one transformer, the
\* seasons table holds exactly one record for each key (year, type code)
\* seen so far, season_id_map maps each key to the season_id of its record,
\* and a call whose keys are all known leaves the table and the map as
\* they were.
C26_OneSeasonPerKey ==
    [][/\ OneSeasonPerKey(self', all_api_data')
       /\ SeasonKeys(all_api_data'[Len(all_api_data')])
              \subseteq DOMAIN self.season_id_map
          => /\ self'.seasons = self.seasons
             /\ self'.season_id_map = self.season_id_map]_vars

\* A call of transform_seasons has met a key of an earlier call, on a
\* transformer that holds seasons of several keys.
C26_Witness ==
    /\ pc = "transform_seasons"
    /\ Len(self.seasons) >= 2
    /\ \E i, j \in 1..Len(all_api_data) :
          i < j /\ SeasonKeys(all_api_data[i]) \cap SeasonKeys(all_api_data[j]) # {}

\* The text is one or more decimal digits.
AllDecimal(text) ==
    text # <<>> /\ \A i \in 1..Len(text) : text[i] \in DecimalDigits

\* The inches that the claim gives a string, blanks around it ignored: the
\* value of a digit-only string, 12 f + i for f-i and for f'i", and null
\* for every other string.
InchesOfString(text) ==
    LET FeetInches(k, last) ==
            /\ AllDecimal(SubSeq(text, 1, k - 1))
            /\ AllDecimal(SubSeq(text, k + 1, last))
        Inches(k, last) ==
            Int((12 * ParseDigits(SubSeq(text, 1, k - 1), 0))
                + ParseDigits(SubSeq(text, k + 1, last), 0))
        dashed == {k \in 1..Len(text) :
                      text[k] = "-" /\ FeetInches(k, Len(text))}
        quoted == {k \in 1..Len(text) :
                      /\ text[k] = "'" /\ text[Len(text)] = "\""
                      /\ FeetInches(k, Len(text) - 1)}
    IN  IF AllDecimal(text) THEN Int(ParseDigits(text, 0))
        ELSE IF dashed # {} THEN Inches(CHOOSE k \in dashed : TRUE, Len(text))
        ELSE IF quoted # {}
             THEN Inches(CHOOSE k \in quoted : TRUE, Len(text) - 1)
        ELSE None

\* C27: convert_height_to_inches returns for every input, never raising:
\* n for an integer n, the inches of a string of one of the three formats,
\* and null for every other input.
C27_HeightConversion ==
    pc = "converted" =>
        /\ height # ValueError
        /\ height = IF height_str = None \/ IsFloat(height_str) THEN None
                    ELSE IF IsInt(height_str) THEN height_str
                    ELSE InchesOfString(strip(height_str))

\* The player's name is an object without a last component, and the player
\* has no last_name and no first_name field.
NameObjectWithoutLast(player) ==
    /\ NoText(player.last_name) /\ NoText(player.first_name)
    /\ IsDict(player.name)
    /\ NoText(player.name[3])

\* C28: a player with an id of UUID shape on a team of team_id_map whose
\* name is an object without a last component, and who has no last_name
\* field, has a record whose last_name is "Unknown" and whose first_name is
\* the first component of the object: the last name is not taken from the
\* text that str() gives for the object.
C28_StructuredNameWithoutLast ==
    After("players") =>
        \A player \in ResolvedPlayers :
            NameObjectWithoutLast(player) =>
                \E r \in Rows(self.players) :
                    /\ r.player_id = player.id
                    /\ r.last_name = Unknown
                    /\ r.first_name = normalize_string(player.name[2])

----------------------------------------------------------------------------
(* run_etl_pipeline: the value returned and the connections                *)

\* The records of a table that the populator has inserted in this run.
Inserted(table) ==
    {populator.insert_statements[i].record :
        i \in {j \in 1..Len(populator.insert_statements) :
                  populator.insert_statements[j].table = table}}

\* C29: run_etl_pipeline returns True only if the insert of every table
\* succeeded: when it has returned True, every record of every table of
\* the transformed data has been inserted.
C29_TrueOnlyIfEveryInsertSucceeded ==
    pc = "done" /\ result = True =>
        \A table \in DOMAIN transformed_data(self) :
            \A i \in 1..Len(transformed_data(self)[table]) :
                transformed_data(self)[table][i] \in Inserted(table)

\* C30: every connection opened during run_etl_pipeline, by the schema
\* creator or by the populator, is closed when the pipeline has returned,
\* whatever it returns.
C30_ConnectionsClosedOnReturn ==
    pc = "done" =>
        /\ populator.conn = NoConn
        /\ schema_creator.conn = NoConn

====
